---- MODULE Spec2Model ----
(***************************************************************************)
(* Timeline resolution and tweening engine of nightshade-animate.          *)
(*                                                                         *)
(* f32 values are modelled as exact rationals <<n, d>> (d > 0, lowest      *)
(* terms).  Angles are measured in degrees, so that the constant PI of the *)
(* source is the rational 180; lerp_angle is linear in its arguments and   *)
(* in PI, so the change of unit commutes with it.                          *)
(* Option<T> is modelled as a sequence: <<>> is None, <<x>> is Some(x).    *)
(***************************************************************************)
EXTENDS Integers, Sequences, FiniteSets, TLC

VARIABLES
    keyframes,        \* layer.keyframes: frame -> Keyframe
    property_tracks,  \* layer.property_tracks: object id -> PropertyTracks
    camera_keyframes, \* project.camera_keyframes: frame -> CameraKeyframe
    camera_tween,     \* project.camera_tween
    loop_start,       \* project.loop_start (Option)
    loop_end,         \* project.loop_end (Option)
    current_frame,    \* app.current_frame
    playback,         \* app.playback: playing, accumulator, last_instant
    history,          \* app.history: the pushed project snapshots
    edits,            \* number of editing operations performed so far
    last_op           \* the last operation, the calls it made, its result

projectVars == <<keyframes, property_tracks, camera_keyframes, camera_tween,
                 loop_start, loop_end>>

vars == <<keyframes, property_tracks, camera_keyframes, camera_tween,
          loop_start, loop_end, current_frame, playback, history, edits,
          last_op>>

(***************************************************************************)
(* Bounds of the model.                                                    *)
(***************************************************************************)
MaxFrame == 4
MaxKeys == 2
MaxEdits == 1
MaxEnsures == 2
MaxDelta == 3

Frames == 0..MaxFrame

(***************************************************************************)
(* Rational arithmetic (f32).                                              *)
(***************************************************************************)
Abs(n) == IF n < 0 THEN 0 - n ELSE n

RECURSIVE GCD(_, _)
GCD(a, b) == IF b = 0 THEN a ELSE GCD(b, a % b)

Reduce(n, d, g) == IF n = 0 THEN <<0, 1>> ELSE <<n \div g, d \div g>>

Norm(n, d) == Reduce(n, d, GCD(Abs(n), d))

I(n) == <<n, 1>>
Q(n, d) == Norm(n, d)
RAdd(a, b) == Norm(a[1] * b[2] + b[1] * a[2], a[2] * b[2])
RSub(a, b) == Norm(a[1] * b[2] - b[1] * a[2], a[2] * b[2])
RMul(a, b) == Norm(a[1] * b[1], a[2] * b[2])
RDiv(a, b) == IF b[1] < 0 THEN Norm((0 - a[1]) * b[2], a[2] * (0 - b[1]))
                          ELSE Norm(a[1] * b[2], a[2] * b[1])
RLt(a, b) == a[1] * b[2] < b[1] * a[2]
RAbs(a) == <<Abs(a[1]), a[2]>>

PI == I(180)

(***************************************************************************)
(* TweenType (project.rs).                                                 *)
(***************************************************************************)
TweenNone == [kind |-> "None"]
TweenLinear == [kind |-> "Linear"]
TweenEaseIn == [kind |-> "EaseIn"]
TweenEaseOut == [kind |-> "EaseOut"]
TweenEaseInOut == [kind |-> "EaseInOut"]
TweenCubicBezier(x1, y1, x2, y2) ==
    [kind |-> "CubicBezier", x1 |-> x1, y1 |-> y1, x2 |-> x2, y2 |-> y2]

(***************************************************************************)
(* Easing evaluator (tween.rs).                                            *)
(***************************************************************************)
BezierIterations == 8
F32_STEPS == 8
BezierEpsilon == Q(1, 1000000)

\* Mutant: the cubic term t * t * t is missing.
bezier_sample_terms_no_cubic(t, one_minus_t, p1, p2) ==
    RAdd(RMul(RMul(RMul(RMul(I(3), one_minus_t), one_minus_t), t), p1),
         RMul(RMul(RMul(RMul(I(3), one_minus_t), t), t), p2))

\* one_minus_t = 1.0 - t, computed once by the caller.
bezier_sample_terms(t, one_minus_t, p1, p2) ==
    RAdd(RAdd(RMul(RMul(RMul(RMul(I(3), one_minus_t), one_minus_t), t), p1),
              RMul(RMul(RMul(RMul(I(3), one_minus_t), t), t), p2)),
         RMul(RMul(t, t), t))

cubic_bezier_sample(t, p1, p2) ==
    bezier_sample_terms(t, RSub(I(1), t), p1, p2)

bezier_derivative_terms(t, one_minus_t, p1, p2) ==
    RAdd(RAdd(RMul(RMul(RMul(I(3), one_minus_t), one_minus_t), p1),
              RMul(RMul(RMul(I(6), one_minus_t), t), RSub(p2, p1))),
         RMul(RMul(RMul(I(3), t), t), RSub(I(1), p2)))

cubic_bezier_derivative(t, p1, p2) ==
    bezier_derivative_terms(t, RSub(I(1), t), p1, p2)

clamp01(x) == IF RLt(x, I(0)) THEN I(0) ELSE IF RLt(I(1), x) THEN I(1) ELSE x

\* x.abs() < 1e-6, written so that no product is formed.
near_zero(x) == Abs(x[1]) <= (x[2] - 1) \div BezierEpsilon[2]

\* guess_t is stored as an f32.  The precision is scaled down: a stored
\* guess is rounded to the nearest multiple of 1 / F32_STEPS.
f32_guess(x) ==
    Q((2 * x[1] * F32_STEPS + x[2]) \div (2 * x[2]), F32_STEPS)

\* guess_t -= dx / derivative; guess_t = guess_t.clamp(0.0, 1.0);
newton_update(guess_t, dx, derivative) ==
    f32_guess(clamp01(RSub(guess_t, RDiv(dx, derivative))))

\* One Newton iteration of the loop, given dx and the derivative.
RECURSIVE bezier_guess(_, _, _, _, _)
RECURSIVE newton_step(_, _, _, _, _, _, _)
newton_step(guess_t, dx, derivative, t, x1, x2, n) ==
    IF near_zero(dx) THEN guess_t
    ELSE IF near_zero(derivative) THEN guess_t
    ELSE bezier_guess(newton_update(guess_t, dx, derivative),
                      t, x1, x2, n - 1)

bezier_guess(guess_t, t, x1, x2, n) ==
    IF n = 0 THEN guess_t
    ELSE newton_step(guess_t,
                     RSub(cubic_bezier_sample(guess_t, x1, x2), t),
                     cubic_bezier_derivative(guess_t, x1, x2),
                     t, x1, x2, n)

cubic_bezier_easing(t, x1, y1, x2, y2) ==
    cubic_bezier_sample(bezier_guess(t, t, x1, x2, BezierIterations), y1, y2)

\* The values guess_t takes in the loop: the initial guess, then one entry
\* for every iteration that updates it.
RECURSIVE bezier_trace(_, _, _, _, _)
RECURSIVE trace_step(_, _, _, _, _, _, _)
trace_step(trace, dx, derivative, t, x1, x2, n) ==
    IF near_zero(dx) THEN trace
    ELSE IF near_zero(derivative) THEN trace
    ELSE bezier_trace(Append(trace, newton_update(trace[Len(trace)], dx,
                                                  derivative)),
                      t, x1, x2, n - 1)

bezier_trace(trace, t, x1, x2, n) ==
    IF n = 0 THEN trace
    ELSE trace_step(trace,
                    RSub(cubic_bezier_sample(trace[Len(trace)], x1, x2), t),
                    cubic_bezier_derivative(trace[Len(trace)], x1, x2),
                    t, x1, x2, n)

\* Mutant: the Linear tween eased quadratically.
apply_easing_linear_squared(t, tween) ==
    CASE tween.kind = "None" -> t
      [] tween.kind \in {"Linear", "EaseIn"} -> RMul(t, t)
      [] tween.kind = "EaseOut" ->
            RSub(I(1), RMul(RSub(I(1), t), RSub(I(1), t)))
      [] tween.kind = "EaseInOut" ->
            IF RLt(t, Q(1, 2))
            THEN RMul(RMul(I(2), t), t)
            ELSE LET u == RAdd(RMul(I(-2), t), I(2))
                 IN  RSub(I(1), RDiv(RMul(u, u), I(2)))
      [] tween.kind = "CubicBezier" ->
            cubic_bezier_easing(t, tween.x1, tween.y1, tween.x2, tween.y2)

apply_easing(t, tween) ==
    CASE tween.kind = "None" -> t
      [] tween.kind = "Linear" -> t
      [] tween.kind = "EaseIn" -> RMul(t, t)
      [] tween.kind = "EaseOut" ->
            RSub(I(1), RMul(RSub(I(1), t), RSub(I(1), t)))
      [] tween.kind = "EaseInOut" ->
            IF RLt(t, Q(1, 2))
            THEN RMul(RMul(I(2), t), t)
            ELSE LET u == RAdd(RMul(I(-2), t), I(2))
                 IN  RSub(I(1), RDiv(RMul(u, u), I(2)))
      [] tween.kind = "CubicBezier" ->
            cubic_bezier_easing(t, tween.x1, tween.y1, tween.x2, tween.y2)

(***************************************************************************)
(* Scalar, vector, angle and paint interpolation (tween.rs, paint.rs).     *)
(***************************************************************************)
lerp_f32(a, b, t) == RAdd(a, RMul(RSub(b, a), t))

lerp_arr2(a, b, t) == <<lerp_f32(a[1], b[1], t), lerp_f32(a[2], b[2], t)>>

RECURSIVE wrap_down(_)
wrap_down(diff) ==
    IF RLt(PI, diff) THEN wrap_down(RSub(diff, RMul(I(2), PI))) ELSE diff

RECURSIVE wrap_up(_)
wrap_up(diff) ==
    IF RLt(diff, RSub(I(0), PI)) THEN wrap_up(RAdd(diff, RMul(I(2), PI)))
    ELSE diff

lerp_angle(a, b, t) == RAdd(a, RMul(wrap_up(wrap_down(RSub(b, a))), t))

Solid(c) == [kind |-> "Solid", color |-> c]
LinearGradient(s, e, stops) ==
    [kind |-> "LinearGradient", start |-> s, end |-> e, stops |-> stops]
RadialGradient(c, r, stops) ==
    [kind |-> "RadialGradient", center |-> c, radius |-> r, stops |-> stops]

as_solid(paint) ==
    IF paint.kind = "Solid" THEN paint.color
    ELSE IF Len(paint.stops) > 0 THEN paint.stops[1].color
    ELSE <<I(0), I(0), I(0), I(1)>>

lerp_color(a, b, t) == [i \in 1..4 |-> RAdd(a[i], RMul(RSub(b[i], a[i]), t))]

\* Mutant: a gradient that does not change between the two paints is kept.
lerp_paint_keeps_equal_gradient(from, to, t) ==
    IF from.kind = "Solid" /\ to.kind = "Solid"
    THEN Solid(lerp_color(from.color, to.color, t))
    ELSE IF from = to THEN from
    ELSE Solid(lerp_color(as_solid(from), as_solid(to), t))

lerp_paint(from, to, t) ==
    IF from.kind = "Solid" /\ to.kind = "Solid"
    THEN Solid(lerp_color(from.color, to.color, t))
    ELSE Solid(lerp_color(as_solid(from), as_solid(to), t))

(***************************************************************************)
(* Shapes and the shape normalizer (project.rs, tween.rs).                 *)
(***************************************************************************)
Rectangle(w, h, r) ==
    [kind |-> "Rectangle", width |-> w, height |-> h, corner_radius |-> r]
Ellipse(rx, ry) == [kind |-> "Ellipse", radius_x |-> rx, radius_y |-> ry]
Line(ex, ey) == [kind |-> "Line", end_x |-> ex, end_y |-> ey]
Path(points, closed) == [kind |-> "Path", points |-> points, closed |-> closed]
Text(content, size) == [kind |-> "Text", content |-> content, font_size |-> size]

PathPoint(pos, cin, cout, pressure) ==
    [position |-> pos, control_in |-> cin, control_out |-> cout,
     pressure |-> pressure]

Corner(x, y) == PathPoint(<<x, y>>, <<>>, <<>>, I(1))

interpolate_optional_point(from, to, t) ==
    IF from # <<>> /\ to # <<>> THEN <<lerp_arr2(from[1], to[1], t)>>
    ELSE IF from # <<>> THEN from
    ELSE IF to # <<>> THEN to
    ELSE <<>>

interpolate_path_point(from, to, t) ==
    PathPoint(lerp_arr2(from.position, to.position, t),
              interpolate_optional_point(from.control_in, to.control_in, t),
              interpolate_optional_point(from.control_out, to.control_out, t),
              lerp_f32(from.pressure, to.pressure, t))

\* Squared length of the segment leaving point i; the source compares the
\* square roots, which order the same way.
Sq(x) == RMul(x, x)

segment_dist2(points, i) ==
    RAdd(Sq(RSub(points[i + 1].position[1], points[i].position[1])),
         Sq(RSub(points[i + 1].position[2], points[i].position[2])))

\* for index in 0..result.len() - 1: the first longest segment wins.
RECURSIVE longest_segment(_, _, _, _)
RECURSIVE longest_of(_, _, _, _, _)
longest_of(points, index, best_index, best_d2, d2) ==
    IF RLt(best_d2, d2)
    THEN longest_segment(points, index + 1, index, d2)
    ELSE longest_segment(points, index + 1, best_index, best_d2)

longest_segment(points, index, best_index, best_d2) ==
    IF index > Len(points) - 1 THEN best_index
    ELSE longest_of(points, index, best_index, best_d2,
                    segment_dist2(points, index))

InsertAt(seq, i, x) ==
    SubSeq(seq, 1, i - 1) \o <<x>> \o SubSeq(seq, i, Len(seq))

\* result.insert(k + 1, midpoint of segment k)
insert_midpoint(result, k) ==
    InsertAt(result, k + 1,
             interpolate_path_point(result[k], result[k + 1], Q(1, 2)))

RECURSIVE subdivide_loop(_, _)
subdivide_loop(result, target_count) ==
    IF Len(result) >= target_count THEN result
    ELSE subdivide_loop(
             insert_midpoint(result, longest_segment(result, 1, 1, I(0))),
             target_count)

subdivide_path_to_count(points, target_count) ==
    IF Len(points) >= target_count \/ Len(points) < 2 THEN points
    ELSE subdivide_loop(points, target_count)

\* The number of times the body of `while result.len() < target_count` runs.
RECURSIVE loop_iterations(_, _)
loop_iterations(result, target_count) ==
    IF Len(result) >= target_count THEN 0
    ELSE 1 + loop_iterations(
                 insert_midpoint(result, longest_segment(result, 1, 1, I(0))),
                 target_count)

subdivide_iterations(points, target_count) ==
    IF Len(points) >= target_count \/ Len(points) < 2 THEN 0
    ELSE loop_iterations(points, target_count)

normalize_path_points(from, to) ==
    IF Len(from) = Len(to) THEN <<from, to>>
    ELSE IF Len(from) < Len(to)
         THEN <<subdivide_path_to_count(from, Len(to)), to>>
         ELSE <<from, subdivide_path_to_count(to, Len(from))>>

\* cos and sin of 2*pi*k/16, k = 0..15, to three decimals.
EllipseSegments == 16
Cos16 == <<1000, 924, 707, 383, 0, -383, -707, -924,
           -1000, -924, -707, -383, 0, 383, 707, 924>>
Sin16 == <<0, 383, 707, 924, 1000, 924, 707, 383,
           0, -383, -707, -924, -1000, -924, -707, -383>>

shape_to_path(shape) ==
    CASE shape.kind = "Rectangle" ->
            LET half_w == RDiv(shape.width, I(2))
                half_h == RDiv(shape.height, I(2))
            IN  Path(<<Corner(RSub(I(0), half_w), RSub(I(0), half_h)),
                       Corner(half_w, RSub(I(0), half_h)),
                       Corner(half_w, half_h),
                       Corner(RSub(I(0), half_w), half_h)>>, TRUE)
      [] shape.kind = "Ellipse" ->
            Path([k \in 1..EllipseSegments |->
                    Corner(RMul(Q(Cos16[k], 1000), shape.radius_x),
                           RMul(Q(Sin16[k], 1000), shape.radius_y))], TRUE)
      [] shape.kind = "Line" ->
            Path(<<Corner(I(0), I(0)), Corner(shape.end_x, shape.end_y)>>,
                 FALSE)
      [] OTHER -> shape

Min2(a, b) == IF a < b THEN a ELSE b

\* normalized_from.iter().zip(normalized_to.iter()).map(...)
zip_points(normalized, t) ==
    [i \in 1..Min2(Len(normalized[1]), Len(normalized[2])) |->
        interpolate_path_point(normalized[1][i], normalized[2][i], t)]

morph_paths(from, to, t) ==
    Path(zip_points(normalize_path_points(from.points, to.points), t),
         IF RLt(t, Q(1, 2)) THEN from.closed ELSE to.closed)

\* The fallback arm: both shapes converted to paths, morphed if both
\* conversions gave a path.
morph_converted(from, from_path, to_path, t) ==
    IF from_path.kind = "Path" /\ to_path.kind = "Path"
    THEN morph_paths(from_path, to_path, t)
    ELSE from

interpolate_shape(from, to, t) ==
    CASE from.kind = "Rectangle" /\ to.kind = "Rectangle" ->
            Rectangle(lerp_f32(from.width, to.width, t),
                      lerp_f32(from.height, to.height, t),
                      lerp_f32(from.corner_radius, to.corner_radius, t))
      [] from.kind = "Ellipse" /\ to.kind = "Ellipse" ->
            Ellipse(lerp_f32(from.radius_x, to.radius_x, t),
                    lerp_f32(from.radius_y, to.radius_y, t))
      [] from.kind = "Line" /\ to.kind = "Line" ->
            Line(lerp_f32(from.end_x, to.end_x, t),
                 lerp_f32(from.end_y, to.end_y, t))
      [] from.kind = "Path" /\ to.kind = "Path" -> morph_paths(from, to, t)
      [] OTHER ->
            morph_converted(from, shape_to_path(from), shape_to_path(to), t)

(***************************************************************************)
(* Object interpolator (tween.rs).                                         *)
(***************************************************************************)
AnimObject(id, shape, position, rotation, scale, fill, stroke, stroke_width) ==
    [id |-> id, shape |-> shape, position |-> position,
     rotation |-> rotation, scale |-> scale, fill |-> fill,
     stroke |-> stroke, stroke_width |-> stroke_width]

interpolate_object(from, to, t, shape_tween) ==
    AnimObject(from.id,
               IF shape_tween THEN interpolate_shape(from.shape, to.shape, t)
                              ELSE from.shape,
               lerp_arr2(from.position, to.position, t),
               lerp_angle(from.rotation, to.rotation, t),
               lerp_arr2(from.scale, to.scale, t),
               lerp_paint(from.fill, to.fill, t),
               lerp_paint(from.stroke, to.stroke, t),
               lerp_f32(from.stroke_width, to.stroke_width, t))

\* to.iter().find(|object| object.id == id): the first match.
FindById(objs, id) ==
    LET hits == {i \in 1..Len(objs) : objs[i].id = id}
    IN  IF hits = {} THEN <<>>
        ELSE <<objs[CHOOSE i \in hits : \A j \in hits : i <= j]>>

\* Mutant: an object without a counterpart in `to` is dropped.
interpolate_objects_drop_unmatched(from, to, t, shape_tween) ==
    LET kept == SelectSeq(from, LAMBDA object : FindById(to, object.id) # <<>>)
    IN  [i \in 1..Len(kept) |->
            interpolate_object(kept[i], FindById(to, kept[i].id)[1], t,
                               shape_tween)]

interpolate_objects(from, to, t, shape_tween) ==
    [i \in 1..Len(from) |->
        LET to_obj == FindById(to, from[i].id)
        IN  IF to_obj # <<>>
            THEN interpolate_object(from[i], to_obj[1], t, shape_tween)
            ELSE from[i]]

(***************************************************************************)
(* Ordered-map range queries (BTreeMap::range).                            *)
(***************************************************************************)
SetMax(S) == CHOOSE x \in S : \A y \in S : y <= x
SetMin(S) == CHOOSE x \in S : \A y \in S : x <= y

\* Mutant: range(..frame), the target frame itself excluded.
PrevKey_exclusive(map, frame) ==
    LET below == {k \in DOMAIN map : k < frame}
    IN  IF below = {} THEN <<>> ELSE <<SetMax(below)>>

\* map.range(..=frame).next_back(): the greatest key <= frame, if any.
PrevKey(map, frame) ==
    LET below == {k \in DOMAIN map : k <= frame}
    IN  IF below = {} THEN <<>> ELSE <<SetMax(below)>>

\* map.range((frame + 1)..).next(): the least key >= frame + 1, if any.
NextKey(map, frame) ==
    LET above == {k \in DOMAIN map : k >= frame + 1}
    IN  IF above = {} THEN <<>> ELSE <<SetMin(above)>>

raw_t(frame, prev_frame, next_frame) ==
    Q(frame - prev_frame, next_frame - prev_frame)

(***************************************************************************)
(* Property track resolver (tween.rs).                                     *)
(***************************************************************************)
EmptyMap == <<>>

PropertyKey(value, tween) == [value |-> value, tween |-> tween]

PropertyTracks(position, rotation, scale, fill, stroke, stroke_width) ==
    [position |-> position, rotation |-> rotation, scale |-> scale,
     fill |-> fill, stroke |-> stroke, stroke_width |-> stroke_width]

resolve_track_f32(track, frame) ==
    IF DOMAIN track = {} THEN <<>>
    ELSE LET prev == PrevKey(track, frame)
             next == NextKey(track, frame)
         IN  IF prev = <<>> THEN <<>>
             ELSE IF prev[1] = frame \/ track[prev[1]].tween.kind = "None"
                  THEN <<track[prev[1]].value>>
             ELSE IF next = <<>> THEN <<>>
             ELSE <<lerp_f32(track[prev[1]].value, track[next[1]].value,
                             apply_easing(raw_t(frame, prev[1], next[1]),
                                          track[prev[1]].tween))>>

resolve_track_angle(track, frame) ==
    IF DOMAIN track = {} THEN <<>>
    ELSE LET prev == PrevKey(track, frame)
             next == NextKey(track, frame)
         IN  IF prev = <<>> THEN <<>>
             ELSE IF prev[1] = frame \/ track[prev[1]].tween.kind = "None"
                  THEN <<track[prev[1]].value>>
             ELSE IF next = <<>> THEN <<>>
             ELSE <<lerp_angle(track[prev[1]].value, track[next[1]].value,
                               apply_easing(raw_t(frame, prev[1], next[1]),
                                            track[prev[1]].tween))>>

\* Mutant: an entry with tween None is not held; only an exact frame match
\* returns the entry untouched.
resolve_track_arr2_no_hold(track, frame) ==
    IF DOMAIN track = {} THEN <<>>
    ELSE LET prev == PrevKey(track, frame)
             next == NextKey(track, frame)
         IN  IF prev = <<>> THEN <<>>
             ELSE IF prev[1] = frame THEN <<track[prev[1]].value>>
             ELSE IF next = <<>> THEN <<>>
             ELSE <<lerp_arr2(track[prev[1]].value, track[next[1]].value,
                              apply_easing(raw_t(frame, prev[1], next[1]),
                                           track[prev[1]].tween))>>

resolve_track_arr2(track, frame) ==
    IF DOMAIN track = {} THEN <<>>
    ELSE LET prev == PrevKey(track, frame)
             next == NextKey(track, frame)
         IN  IF prev = <<>> THEN <<>>
             ELSE IF prev[1] = frame \/ track[prev[1]].tween.kind = "None"
                  THEN <<track[prev[1]].value>>
             ELSE IF next = <<>> THEN <<>>
             ELSE <<lerp_arr2(track[prev[1]].value, track[next[1]].value,
                              apply_easing(raw_t(frame, prev[1], next[1]),
                                           track[prev[1]].tween))>>

resolve_track_paint(track, frame) ==
    IF DOMAIN track = {} THEN <<>>
    ELSE LET prev == PrevKey(track, frame)
             next == NextKey(track, frame)
         IN  IF prev = <<>> THEN <<>>
             ELSE IF prev[1] = frame \/ track[prev[1]].tween.kind = "None"
                  THEN <<track[prev[1]].value>>
             ELSE IF next = <<>> THEN <<>>
             ELSE <<lerp_paint(track[prev[1]].value, track[next[1]].value,
                               apply_easing(raw_t(frame, prev[1], next[1]),
                                            track[prev[1]].tween))>>

OrElse(opt, default) == IF opt = <<>> THEN default ELSE opt[1]

apply_property_tracks(object, tracks, frame) ==
    AnimObject(object.id,
               object.shape,
               OrElse(resolve_track_arr2(tracks.position, frame),
                      object.position),
               OrElse(resolve_track_angle(tracks.rotation, frame),
                      object.rotation),
               OrElse(resolve_track_arr2(tracks.scale, frame), object.scale),
               OrElse(resolve_track_paint(tracks.fill, frame), object.fill),
               OrElse(resolve_track_paint(tracks.stroke, frame),
                      object.stroke),
               OrElse(resolve_track_f32(tracks.stroke_width, frame),
                      object.stroke_width))

(***************************************************************************)
(* Frame resolver and keyframe materialization (tween.rs).                 *)
(***************************************************************************)
Keyframe(objects, tween, label, comment, shape_tween) ==
    [objects |-> objects, tween |-> tween, label |-> label,
     comment |-> comment, shape_tween |-> shape_tween]

KeyframeDefault == Keyframe(<<>>, TweenNone, "", "", FALSE)

Layer(kfs, tracks) == [keyframes |-> kfs, property_tracks |-> tracks]

\* Mutant: a keyframe at the target frame is interpolated like any other.
base_objects_no_exact_match(layer, frame, prev_frame) ==
    LET prev_keyframe == layer.keyframes[prev_frame]
        next == NextKey(layer.keyframes, frame)
    IN  IF prev_keyframe.tween.kind = "None"
        THEN prev_keyframe.objects
        ELSE IF next = <<>> THEN prev_keyframe.objects
        ELSE interpolate_objects(
                 prev_keyframe.objects,
                 layer.keyframes[next[1]].objects,
                 apply_easing(raw_t(frame, prev_frame, next[1]),
                              prev_keyframe.tween),
                 prev_keyframe.shape_tween)

\* Mutant: nothing is drawn past the last keyframe of a tweened span.
base_objects_empty_past_last(layer, frame, prev_frame) ==
    LET prev_keyframe == layer.keyframes[prev_frame]
        next == NextKey(layer.keyframes, frame)
    IN  IF prev_frame = frame \/ prev_keyframe.tween.kind = "None"
        THEN prev_keyframe.objects
        ELSE IF next = <<>> THEN <<>>
        ELSE interpolate_objects(
                 prev_keyframe.objects,
                 layer.keyframes[next[1]].objects,
                 apply_easing(raw_t(frame, prev_frame, next[1]),
                              prev_keyframe.tween),
                 prev_keyframe.shape_tween)

\* The object list of step 1-4, before the property-track overlay.
\* Mutant: the shape-tween flag is read from the successor keyframe.
base_objects_successor_shape_tween(layer, frame, prev_frame) ==
    LET prev_keyframe == layer.keyframes[prev_frame]
        next == NextKey(layer.keyframes, frame)
    IN  IF prev_frame = frame \/ prev_keyframe.tween.kind = "None"
        THEN prev_keyframe.objects
        ELSE IF next = <<>> THEN prev_keyframe.objects
        ELSE interpolate_objects(
                 prev_keyframe.objects,
                 layer.keyframes[next[1]].objects,
                 apply_easing(raw_t(frame, prev_frame, next[1]),
                              prev_keyframe.tween),
                 layer.keyframes[next[1]].shape_tween)

base_objects(layer, frame, prev_frame) ==
    LET prev_keyframe == layer.keyframes[prev_frame]
        next == NextKey(layer.keyframes, frame)
    IN  IF prev_frame = frame \/ prev_keyframe.tween.kind = "None"
        THEN prev_keyframe.objects
        ELSE IF next = <<>> THEN prev_keyframe.objects
        ELSE interpolate_objects(
                 prev_keyframe.objects,
                 layer.keyframes[next[1]].objects,
                 apply_easing(raw_t(frame, prev_frame, next[1]),
                              prev_keyframe.tween),
                 prev_keyframe.shape_tween)

overlay_tracks(layer, objects, frame) ==
    [i \in 1..Len(objects) |->
        IF objects[i].id \in DOMAIN layer.property_tracks
        THEN apply_property_tracks(objects[i],
                                   layer.property_tracks[objects[i].id], frame)
        ELSE objects[i]]

resolve_frame(layer, frame) ==
    LET prev_entry == PrevKey(layer.keyframes, frame)
    IN  IF prev_entry = <<>> THEN <<>>
        ELSE <<overlay_tracks(layer,
                              base_objects(layer, frame, prev_entry[1]),
                              frame)>>

MapInsert(map, k, v) ==
    [x \in DOMAIN map \cup {k} |-> IF x = k THEN v ELSE map[x]]

MapRemove(map, k) == [x \in DOMAIN map \ {k} |-> map[x]]

\* Mutant: the new keyframe is created with tween Linear.
snapshot_keyframe_linear(resolved) ==
    IF resolved # <<>>
    THEN Keyframe(resolved[1], TweenLinear, "", "", FALSE)
    ELSE Keyframe(<<>>, TweenLinear, "", "", FALSE)

\* let keyframe = match resolved { Some(objects) => ..., None => default }
snapshot_keyframe(resolved) ==
    IF resolved # <<>>
    THEN Keyframe(resolved[1], TweenNone, "", "", FALSE)
    ELSE KeyframeDefault

\* Mutant: the snapshot is stored one frame late.
ensure_keyframe_at_off_by_one(layer, frame) ==
    IF frame \in DOMAIN layer.keyframes THEN layer
    ELSE Layer(MapInsert(layer.keyframes, frame + 1,
                         snapshot_keyframe(resolve_frame(layer, frame))),
               layer.property_tracks)

\* Mutant: the predecessor keyframe's objects are copied instead of the
\* resolved state.
ensure_keyframe_at_copy_previous(layer, frame) ==
    IF frame \in DOMAIN layer.keyframes THEN layer
    ELSE Layer(MapInsert(layer.keyframes, frame,
                         snapshot_keyframe(
                             LET prev == PrevKey(layer.keyframes, frame)
                             IN  IF prev = <<>> THEN <<>>
                                 ELSE <<layer.keyframes[prev[1]].objects>>)),
               layer.property_tracks)

\* Mutant: no early return; an existing keyframe is replaced by the default.
ensure_keyframe_at_no_early_return(layer, frame) ==
    Layer(MapInsert(layer.keyframes, frame,
                    IF frame \in DOMAIN layer.keyframes THEN KeyframeDefault
                    ELSE snapshot_keyframe(resolve_frame(layer, frame))),
          layer.property_tracks)

\* Mutant: materialization drops the layer's property tracks.
ensure_keyframe_at_clears_tracks(layer, frame) ==
    IF frame \in DOMAIN layer.keyframes THEN Layer(layer.keyframes, EmptyMap)
    ELSE Layer(MapInsert(layer.keyframes, frame,
                         snapshot_keyframe(resolve_frame(layer, frame))),
               EmptyMap)

ensure_keyframe_at(layer, frame) ==
    IF frame \in DOMAIN layer.keyframes THEN layer
    ELSE Layer(MapInsert(layer.keyframes, frame,
                         snapshot_keyframe(resolve_frame(layer, frame))),
               layer.property_tracks)

(***************************************************************************)
(* Initial projects: the layers the editor is started on.                  *)
(***************************************************************************)
Red == <<I(1), I(0), I(0), I(1)>>
Blue == <<I(0), I(0), I(1), Q(1, 2)>>
Black == <<I(0), I(0), I(0), I(1)>>

GradientStop(offset, color) == [offset |-> offset, color |-> color]

Grad ==
    LinearGradient(<<I(0), I(0)>>, <<I(1), I(0)>>,
                   <<GradientStop(I(0), Blue), GradientStop(I(1), Red)>>)

ObjA0 ==
    AnimObject(1, Rectangle(I(10), I(10), I(0)), <<I(0), I(0)>>, I(350),
               <<I(1), I(1)>>, Solid(Red), Solid(Black), I(2))
ObjA1 ==
    AnimObject(1, Rectangle(I(20), I(10), I(2)), <<I(100), I(0)>>, I(10),
               <<I(2), I(2)>>, Grad, Solid(Black), I(4))
ObjB0 ==
    AnimObject(2, Path(<<Corner(I(0), I(0)), Corner(I(4), I(0))>>, FALSE),
               <<I(5), I(5)>>, I(0), <<I(1), I(1)>>, Solid(Blue),
               Solid(Black), I(1))
ObjB1 ==
    AnimObject(2, Path(<<Corner(I(0), I(0)), Corner(I(4), I(0)),
                         Corner(I(4), I(8))>>, TRUE),
               <<I(5), I(25)>>, I(90), <<I(1), I(3)>>, Solid(Red),
               Solid(Blue), I(1))

KeyframeCatalog ==
    <<Keyframe(<<ObjA0, ObjB0>>, TweenLinear, "", "", FALSE),
      Keyframe(<<ObjA1>>, TweenEaseIn, "", "", TRUE),
      Keyframe(<<ObjB1, ObjA0>>, TweenEaseInOut, "", "", TRUE),
      Keyframe(<<ObjA0>>, TweenNone, "", "", FALSE),
      Keyframe(<<ObjA1, ObjB0>>, TweenEaseOut, "", "", TRUE),
      Keyframe(<<ObjB1>>, TweenCubicBezier(Q(1, 3), I(0), Q(2, 3), I(1)),
               "", "", FALSE),
      KeyframeDefault>>

NoTrack == PropertyTracks(EmptyMap, EmptyMap, EmptyMap, EmptyMap, EmptyMap,
                          EmptyMap)

RotationTrack ==
    [f \in {0, 2, 3} |->
        CASE f = 0 -> PropertyKey(I(90), TweenLinear)
          [] f = 2 -> PropertyKey(I(200), TweenNone)
          [] f = 3 -> PropertyKey(I(180), TweenLinear)]

PositionTrack == [f \in {2} |-> PropertyKey(<<I(7), I(7)>>, TweenNone)]

StrokeWidthTrack ==
    [f \in {1, 4} |->
        IF f = 1 THEN PropertyKey(I(3), TweenEaseIn)
                 ELSE PropertyKey(I(5), TweenNone)]

FillTrack ==
    [f \in {0, 2} |->
        IF f = 0 THEN PropertyKey(Solid(Red), TweenLinear)
                 ELSE PropertyKey(Grad, TweenNone)]

TrackCatalog ==
    {EmptyMap,
     [id \in {1} |-> [NoTrack EXCEPT !.rotation = RotationTrack,
                                     !.fill = FillTrack]],
     [id \in {2} |-> [NoTrack EXCEPT !.position = PositionTrack,
                                     !.stroke_width = StrokeWidthTrack]]}

\* The k-th smallest element of a set of frames.
Rank(S, x) == Cardinality({y \in S : y < x})

InitialKeyframes(K, offset) ==
    [f \in K |->
        KeyframeCatalog[((offset + Rank(K, f)) % Len(KeyframeCatalog)) + 1]]

(***************************************************************************)
(* Camera resolver (camera.rs).                                            *)
(***************************************************************************)
CameraKeyframe(position, zoom, rotation) ==
    [position |-> position, zoom |-> zoom, rotation |-> rotation]

\* Mutant: the default pose has zoom 0.
ResolvedCameraDefault_zero_zoom == CameraKeyframe(<<I(0), I(0)>>, I(0), I(0))

ResolvedCameraDefault == CameraKeyframe(<<I(0), I(0)>>, I(1), I(0))

apply_camera_easing(t, tween) ==
    CASE tween.kind \in {"None", "Linear"} -> t
      [] tween.kind = "EaseIn" -> RMul(t, t)
      [] tween.kind = "EaseOut" ->
            RSub(I(1), RMul(RSub(I(1), t), RSub(I(1), t)))
      [] tween.kind = "EaseInOut" ->
            IF RLt(t, Q(1, 2))
            THEN RMul(RMul(I(2), t), t)
            ELSE LET u == RAdd(RMul(I(-2), t), I(2))
                 IN  RSub(I(1), RDiv(RMul(u, u), I(2)))
      [] tween.kind = "CubicBezier" ->
            cubic_bezier_sample(
                bezier_guess(t, t, tween.x1, tween.x2, BezierIterations),
                tween.y1, tween.y2)

camera_lerp(a, b, t) == RAdd(a, RMul(RSub(b, a), t))

camera_lerp_angle(a, b, t) ==
    RAdd(a, RMul(wrap_up(wrap_down(RSub(b, a))), t))

\* Mutant: the project camera tween None does not hold the predecessor.
resolve_camera_ignores_tween_none(cam_keyframes, cam_tween, frame) ==
    IF DOMAIN cam_keyframes = {} THEN ResolvedCameraDefault
    ELSE LET prev == PrevKey(cam_keyframes, frame)
             next == NextKey(cam_keyframes, frame)
         IN  IF prev = <<>>
             THEN cam_keyframes[SetMin(DOMAIN cam_keyframes)]
             ELSE IF prev[1] = frame THEN cam_keyframes[prev[1]]
             ELSE IF next = <<>> THEN cam_keyframes[prev[1]]
             ELSE LET a == cam_keyframes[prev[1]]
                      b == cam_keyframes[next[1]]
                      t == apply_camera_easing(
                               raw_t(frame, prev[1], next[1]), cam_tween)
                  IN  CameraKeyframe(
                          <<camera_lerp(a.position[1], b.position[1], t),
                            camera_lerp(a.position[2], b.position[2], t)>>,
                          camera_lerp(a.zoom, b.zoom, t),
                          camera_lerp_angle(a.rotation, b.rotation, t))

\* Mutant: before the first camera keyframe the default pose is returned.
resolve_camera_default_before_first(cam_keyframes, cam_tween, frame) ==
    IF DOMAIN cam_keyframes = {} THEN ResolvedCameraDefault
    ELSE LET prev == PrevKey(cam_keyframes, frame)
             next == NextKey(cam_keyframes, frame)
         IN  IF prev = <<>>
             THEN ResolvedCameraDefault
             ELSE IF prev[1] = frame THEN cam_keyframes[prev[1]]
             ELSE IF cam_tween.kind = "None" THEN cam_keyframes[prev[1]]
             ELSE IF next = <<>> THEN cam_keyframes[prev[1]]
             ELSE LET a == cam_keyframes[prev[1]]
                      b == cam_keyframes[next[1]]
                      t == apply_camera_easing(
                               raw_t(frame, prev[1], next[1]), cam_tween)
                  IN  CameraKeyframe(
                          <<camera_lerp(a.position[1], b.position[1], t),
                            camera_lerp(a.position[2], b.position[2], t)>>,
                          camera_lerp(a.zoom, b.zoom, t),
                          camera_lerp_angle(a.rotation, b.rotation, t))

resolve_camera(cam_keyframes, cam_tween, frame) ==
    IF DOMAIN cam_keyframes = {} THEN ResolvedCameraDefault
    ELSE LET prev == PrevKey(cam_keyframes, frame)
             next == NextKey(cam_keyframes, frame)
         IN  IF prev = <<>>
             THEN cam_keyframes[SetMin(DOMAIN cam_keyframes)]
             ELSE IF prev[1] = frame THEN cam_keyframes[prev[1]]
             ELSE IF cam_tween.kind = "None" THEN cam_keyframes[prev[1]]
             ELSE IF next = <<>> THEN cam_keyframes[prev[1]]
             ELSE LET a == cam_keyframes[prev[1]]
                      b == cam_keyframes[next[1]]
                      t == apply_camera_easing(
                               raw_t(frame, prev[1], next[1]), cam_tween)
                  IN  CameraKeyframe(
                          <<camera_lerp(a.position[1], b.position[1], t),
                            camera_lerp(a.position[2], b.position[2], t)>>,
                          camera_lerp(a.zoom, b.zoom, t),
                          camera_lerp_angle(a.rotation, b.rotation, t))

(***************************************************************************)
(* The project and the application state.                                  *)
(***************************************************************************)
TotalFrames == MaxFrame + 1

CurrentLayer == Layer(keyframes, property_tracks)

CurrentProject ==
    [keyframes |-> keyframes, property_tracks |-> property_tracks,
     camera_keyframes |-> camera_keyframes, camera_tween |-> camera_tween,
     loop_start |-> loop_start, loop_end |-> loop_end]

PlaybackState(playing, accumulator, last_instant) ==
    [playing |-> playing, accumulator |-> accumulator,
     last_instant |-> last_instant]

PlaybackDefault == PlaybackState(FALSE, 0, FALSE)

Op(op, calls, result) == [op |-> op, calls |-> calls, result |-> result]

CameraCatalog ==
    {EmptyMap,
     [f \in {1, 3} |->
        IF f = 1 THEN CameraKeyframe(<<I(0), I(0)>>, I(1), I(350))
                 ELSE CameraKeyframe(<<I(40), I(8)>>, I(2), I(10))]}

InitLayer ==
    /\ \E K \in SUBSET Frames, offset \in 0..(Len(KeyframeCatalog) - 1) :
          /\ Cardinality(K) <= MaxKeys
          /\ keyframes = InitialKeyframes(K, offset)
    /\ property_tracks \in TrackCatalog
    /\ current_frame \in Frames
    /\ history = <<>>
    /\ edits = 0
    /\ last_op = Op("load", <<>>, <<>>)

Init ==
    /\ InitLayer
    /\ camera_keyframes = EmptyMap
    /\ camera_tween = TweenNone
    /\ loop_start = <<>>
    /\ loop_end = <<>>
    /\ playback = PlaybackDefault

(***************************************************************************)
(* history.push(project.clone())                                           *)
(***************************************************************************)
history_push(h, project) == Append(h, project)

(***************************************************************************)
(* Read path: drawing.                                                     *)
(***************************************************************************)
\* Mutant: drawing materializes the frame it draws.
DrawFrameObjects_materializing ==
    /\ \E ensured \in {ensure_keyframe_at(CurrentLayer, current_frame)} :
          /\ keyframes' = ensured.keyframes
          /\ property_tracks' = ensured.property_tracks
    /\ last_op' = Op("draw_frame_objects", <<"resolve_frame">>,
                     resolve_frame(CurrentLayer, current_frame))
    /\ UNCHANGED <<camera_keyframes, camera_tween, loop_start, loop_end,
                   current_frame, playback, history, edits>>

\* canvas.rs draw_frame_objects
DrawFrameObjects ==
    /\ last_op' = Op("draw_frame_objects", <<"resolve_frame">>,
                     resolve_frame(CurrentLayer, current_frame))
    /\ UNCHANGED <<projectVars, current_frame, playback, history, edits>>

(***************************************************************************)
(* Editing operations.                                                     *)
(***************************************************************************)
MaxOf(S) == IF S = {} THEN 0 ELSE SetMax(S)

\* uuid::Uuid::new_v4(): an identifier no object of the layer carries.
ObjectIds(layer) ==
    UNION {{layer.keyframes[f].objects[i].id :
               i \in 1..Len(layer.keyframes[f].objects)} :
           f \in DOMAIN layer.keyframes}

FreshId(layer, n) ==
    n + MaxOf(ObjectIds(layer) \cup DOMAIN layer.property_tracks)

\* svg.rs import_svg: an unreadable file (svg = None) returns before touching
\* the layer; a parsed file adds its objects to the keyframe at `frame`.
import_svg(layer, svg, frame) ==
    IF svg = <<>> THEN layer
    ELSE IF frame \in DOMAIN layer.keyframes
         THEN Layer([layer.keyframes EXCEPT
                        ![frame].objects = @ \o svg[1]],
                    layer.property_tracks)
         ELSE Layer(MapInsert(layer.keyframes, frame,
                              Keyframe(svg[1], TweenNone, "", "", FALSE)),
                    layer.property_tracks)

SvgObject(id) ==
    AnimObject(id, Ellipse(I(3), I(2)), <<I(1), I(1)>>, I(0),
               <<I(1), I(1)>>, Solid(Black), Solid(Black), I(1))

\* menu.rs draw_menu_bar, "Import SVG...".  svg is the parsed file: None when
\* the file cannot be read or parsed, else the imported objects.
ImportSvg(has_file) ==
    /\ edits < MaxEdits
    /\ \E svg \in {IF has_file
                     THEN <<<<SvgObject(FreshId(CurrentLayer, 1))>>>>
                     ELSE <<>>} :
       \E imported \in
              {import_svg(ensure_keyframe_at(CurrentLayer, current_frame),
                          svg, current_frame)} :
           /\ keyframes' = imported.keyframes
           /\ property_tracks' = imported.property_tracks
           /\ last_op' = Op("import_svg",
                            <<"history.push", "ensure_keyframe_at">>
                                \o (IF svg # <<>> THEN <<"mutate">> ELSE <<>>),
                            <<>>)
    /\ history' = history_push(history, CurrentProject)
    /\ edits' = edits + 1
    /\ UNCHANGED <<camera_keyframes, camera_tween, loop_start, loop_end,
                   current_frame, playback>>

\* clipboard.rs paste: every clipboard object is pushed with a new id and
\* its position moved by (10, 10).
pasted_objects(clip, first_id) ==
    [i \in 1..Len(clip) |->
        [clip[i] EXCEPT !.id = first_id + i - 1,
                        !.position = <<RAdd(@[1], I(10)), RAdd(@[2], I(10))>>]]

Clipboards == {<<ObjB0>>}

Paste(clip) ==
    /\ edits < MaxEdits
    /\ clip # <<>>
    /\ \E ensured \in {ensure_keyframe_at(CurrentLayer, current_frame)} :
           /\ keyframes' =
                 [ensured.keyframes EXCEPT
                     ![current_frame].objects =
                         @ \o pasted_objects(clip, FreshId(CurrentLayer, 1))]
           /\ property_tracks' = ensured.property_tracks
    /\ last_op' = Op("paste",
                     <<"history.push", "ensure_keyframe_at", "mutate">>, <<>>)
    /\ history' = history_push(history, CurrentProject)
    /\ edits' = edits + 1
    /\ UNCHANGED <<camera_keyframes, camera_tween, loop_start, loop_end,
                   current_frame, playback>>

\* .map(|objects| objects.iter().any(...)).unwrap_or(false)
any_selected(resolved, selected) ==
    /\ resolved # <<>>
    /\ \E i \in 1..Len(resolved[1]) : resolved[1][i].id \in selected

HasSelected(layer, frame, selected) ==
    any_selected(resolve_frame(layer, frame), selected)

SetPosition(objects, selected, position) ==
    [i \in 1..Len(objects) |->
        IF objects[i].id \in selected
        THEN [objects[i] EXCEPT !.position = position]
        ELSE objects[i]]

\* properties.rs draw_object_properties with one object selected and the
\* position drag value changed: a tracked position writes a track entry,
\* an untracked one is written into the keyframe at the current frame.
EditPosition(id, position) ==
    /\ edits < MaxEdits
    /\ HasSelected(CurrentLayer, current_frame, {id})
    /\ \E pos_tracked \in
              {/\ id \in DOMAIN property_tracks
               /\ DOMAIN property_tracks[id].position # {}},
          ensured \in {ensure_keyframe_at(CurrentLayer, current_frame)} :
           IF pos_tracked
           THEN /\ property_tracks' =
                      [property_tracks EXCEPT
                          ![id].position =
                              MapInsert(@, current_frame,
                                        PropertyKey(position, TweenLinear))]
                /\ keyframes' = keyframes
                /\ last_op' = Op("edit_position", <<"mutate_track">>, <<>>)
           ELSE /\ keyframes' =
                      [ensured.keyframes EXCEPT
                          ![current_frame].objects =
                              SetPosition(@, {id}, position)]
                /\ property_tracks' = ensured.property_tracks
                /\ last_op' = Op("edit_position",
                                 <<"ensure_keyframe_at", "mutate">>, <<>>)
    /\ edits' = edits + 1
    /\ UNCHANGED <<camera_keyframes, camera_tween, loop_start, loop_end,
                   current_frame, playback, history>>

Retain(objects, selected) ==
    SelectSeq(objects, LAMBDA object : object.id \notin selected)

\* menu.rs delete_selected
DeleteSelected(selected) ==
    /\ edits < MaxEdits
    /\ selected # {}
    /\ \E has_selected \in
              {HasSelected(CurrentLayer, current_frame, selected)} :
       \E ensured \in {IF has_selected
                       THEN ensure_keyframe_at(CurrentLayer, current_frame)
                       ELSE CurrentLayer} :
       \E has_keyframe \in {current_frame \in DOMAIN ensured.keyframes} :
           /\ keyframes' =
                 IF has_keyframe
                 THEN [ensured.keyframes EXCEPT
                          ![current_frame].objects = Retain(@, selected)]
                 ELSE ensured.keyframes
           /\ property_tracks' = ensured.property_tracks
           /\ last_op' = Op("delete_selected",
                            <<"history.push">>
                                \o (IF has_selected
                                    THEN <<"ensure_keyframe_at">> ELSE <<>>)
                                \o (IF has_keyframe
                                    THEN <<"mutate">> ELSE <<>>),
                            <<>>)
    /\ history' = history_push(history, CurrentProject)
    /\ edits' = edits + 1
    /\ UNCHANGED <<camera_keyframes, camera_tween, loop_start, loop_end,
                   current_frame, playback>>

SelectableIds == {1, 2}
EditedPositions == {<<I(7), I(9)>>}

Next == \/ DrawFrameObjects
        \/ \E has_file \in BOOLEAN : ImportSvg(has_file)
        \/ \E clip \in Clipboards : Paste(clip)
        \/ \E id \in SelectableIds, position \in EditedPositions :
              EditPosition(id, position)
        \/ \E id \in SelectableIds : DeleteSelected({id})

Spec == Init /\ [][Next]_vars

(***************************************************************************)
(* Materialization on its own: ensure_keyframe_at applied to a layer.  The  *)
(* result field of last_op lists the frames it was applied to, in order.   *)
(***************************************************************************)
EnsureKeyframeAt(frame) ==
    /\ edits < MaxEnsures
    /\ \E ensured \in {ensure_keyframe_at(CurrentLayer, frame)} :
          /\ keyframes' = ensured.keyframes
          /\ property_tracks' = ensured.property_tracks
    /\ current_frame' = frame
    /\ last_op' = Op("ensure_keyframe_at", <<"ensure_keyframe_at">>,
                     IF last_op.op = "ensure_keyframe_at"
                     THEN Append(last_op.result, frame)
                     ELSE <<frame>>)
    /\ edits' = edits + 1
    /\ UNCHANGED <<camera_keyframes, camera_tween, loop_start, loop_end,
                   playback, history>>

InitMaterialize == Init /\ current_frame = 0

NextMaterialize == \E frame \in Frames : EnsureKeyframeAt(frame)

SpecMaterialize == InitMaterialize /\ [][NextMaterialize]_vars

(***************************************************************************)
(* Read path: onion skins, export, playback.                               *)
(***************************************************************************)
OnionFramesBefore == 2
OnionFramesAfter == 2

\* onion.rs draw_onion_skins: the ghost frames around the playhead.
GhostFrames(frame) ==
    {frame - offset : offset \in {o \in 1..OnionFramesBefore : frame >= o}}
        \cup {frame + offset :
                offset \in {o \in 1..OnionFramesAfter :
                               frame + o < TotalFrames}}

DrawOnionSkins(enabled) ==
    /\ last_op' =
          IF enabled
          THEN Op("draw_onion_skins", <<"resolve_frame">>,
                  [f \in GhostFrames(current_frame) |->
                      resolve_frame(CurrentLayer, f)])
          ELSE Op("draw_onion_skins", <<>>, <<>>)
    /\ UNCHANGED <<projectVars, current_frame, playback, history, edits>>

\* export.rs rasterize_frame: the camera pose and the objects of one frame.
rasterize_frame(project, frame) ==
    [camera |-> resolve_camera(project.camera_keyframes,
                               project.camera_tween, frame),
     objects |-> resolve_frame(Layer(project.keyframes,
                                     project.property_tracks), frame)]

\* export.rs export_gif / export_png_sequence: every frame of the project.
ExportFrames ==
    /\ last_op' = Op("export", <<"resolve_camera", "resolve_frame">>,
                     [f \in 0..(TotalFrames - 1) |->
                         rasterize_frame(CurrentProject, f)])
    /\ UNCHANGED <<projectVars, current_frame, playback, history, edits>>

\* Time is counted in half frame durations: frame_duration = 2 ticks.
FrameDuration == 2

RECURSIVE playback_steps(_, _)
playback_steps(accumulator, frame) ==
    IF accumulator < FrameDuration THEN <<accumulator, frame>>
    ELSE LET stepped == frame + 1
             wrapped ==
                 IF loop_start # <<>> /\ loop_end # <<>>
                 THEN IF stepped > loop_end[1] THEN loop_start[1]
                      ELSE stepped
                 ELSE IF stepped >= TotalFrames THEN 0 ELSE stepped
         IN  playback_steps(accumulator - FrameDuration, wrapped)

\* Mutant: at most one frame is stepped per call (`if` for `while`).
AdvancePlayback_single_step(delta) ==
    /\ IF ~playback.playing
       THEN /\ playback' = [playback EXCEPT !.last_instant = FALSE]
            /\ current_frame' = current_frame
       ELSE IF playback.last_instant
       THEN LET r == playback_steps(
                         IF playback.accumulator + delta >= FrameDuration
                         THEN FrameDuration ELSE 0,
                         current_frame)
            IN  /\ playback' =
                      PlaybackState(TRUE,
                                    IF playback.accumulator + delta
                                          >= FrameDuration
                                    THEN playback.accumulator + delta
                                            - FrameDuration
                                    ELSE playback.accumulator + delta,
                                    TRUE)
                /\ current_frame' = r[2]
       ELSE /\ playback' = [playback EXCEPT !.last_instant = TRUE]
            /\ current_frame' = current_frame
    /\ last_op' = Op("advance_playback", <<>>, delta)
    /\ UNCHANGED <<projectVars, history, edits>>

\* playback.rs advance_playback; delta is the time since last_instant.
AdvancePlayback(delta) ==
    /\ IF ~playback.playing
       THEN /\ playback' = [playback EXCEPT !.last_instant = FALSE]
            /\ current_frame' = current_frame
       ELSE IF playback.last_instant
       THEN LET r == playback_steps(playback.accumulator + delta,
                                    current_frame)
            IN  /\ playback' = PlaybackState(TRUE, r[1], TRUE)
                /\ current_frame' = r[2]
       ELSE /\ playback' = [playback EXCEPT !.last_instant = TRUE]
            /\ current_frame' = current_frame
    /\ last_op' = Op("advance_playback", <<>>, delta)
    /\ UNCHANGED <<projectVars, history, edits>>

\* playback.rs toggle_playback
TogglePlayback ==
    /\ playback' =
          IF playback.playing
          THEN PlaybackState(FALSE, 0, FALSE)
          ELSE [playback EXCEPT !.playing = TRUE]
    /\ last_op' = Op("toggle_playback", <<>>, <<>>)
    /\ UNCHANGED <<projectVars, current_frame, history, edits>>

CameraTweens == {TweenNone, TweenEaseIn}

InitRead ==
    /\ \E K \in SUBSET Frames :
          /\ Cardinality(K) <= MaxKeys
          /\ keyframes = InitialKeyframes(K, 0)
    /\ property_tracks \in TrackCatalog
    /\ camera_keyframes \in CameraCatalog
    /\ camera_tween \in CameraTweens
    /\ loop_start = <<>>
    /\ loop_end = <<>>
    /\ current_frame = 0
    /\ playback = PlaybackDefault
    /\ history = <<>>
    /\ edits = 0
    /\ last_op = Op("load", <<>>, <<>>)

NextRead == \/ DrawFrameObjects
            \/ \E enabled \in BOOLEAN : DrawOnionSkins(enabled)
            \/ ExportFrames
            \/ TogglePlayback
            \/ \E delta \in 0..MaxDelta : AdvancePlayback(delta)

SpecRead == InitRead /\ [][NextRead]_vars

(***************************************************************************)
(* Vocabulary of the properties.                                           *)
(***************************************************************************)
NoTracks == DOMAIN property_tracks = {}

\* p is the greatest keyframe frame <= f of the keyframe map kfs.
IsPredecessor(kfs, p, f) ==
    /\ p \in DOMAIN kfs
    /\ p <= f
    /\ \A k \in DOMAIN kfs : k <= f => k <= p

\* s is the least keyframe frame > f of the keyframe map kfs.
IsSuccessor(kfs, s, f) ==
    /\ s \in DOMAIN kfs
    /\ s > f
    /\ \A k \in DOMAIN kfs : k > f => s <= k

HasUniqueId(objects, id) ==
    Cardinality({i \in 1..Len(objects) : objects[i].id = id}) = 1

Drawn == last_op.op = "draw_frame_objects"

\* from + (to - from) * (f - p) / (s - p)
LinearValue(from, to, f, p, s) ==
    RAdd(from, RDiv(RMul(RSub(to, from), I(f - p)), I(s - p)))

\* C1: in a layer without property tracks, between a Linear keyframe at p
\* and the next keyframe at s, every object present in both keyframes is
\* resolved at frame f (p < f < s) to position
\* from + (to - from) * (f - p) / (s - p) on each axis.
C1_LinearInterpolationLaw ==
    NoTracks =>
      \A f \in Frames, p \in DOMAIN keyframes, s \in DOMAIN keyframes :
        (/\ IsPredecessor(keyframes, p, f)
         /\ IsSuccessor(keyframes, s, f)
         /\ p < f
         /\ keyframes[p].tween.kind = "Linear")
        => LET from == keyframes[p].objects
               to == keyframes[s].objects
               resolved == resolve_frame(CurrentLayer, f)
           IN  /\ resolved # <<>>
               /\ \A i \in 1..Len(from), j \in 1..Len(to) :
                    (/\ from[i].id = to[j].id
                     /\ HasUniqueId(from, from[i].id)
                     /\ HasUniqueId(to, to[j].id))
                    => \E k \in 1..Len(resolved[1]) :
                         /\ resolved[1][k].id = from[i].id
                         /\ resolved[1][k].position =
                              <<LinearValue(from[i].position[1],
                                            to[j].position[1], f, p, s),
                                LinearValue(from[i].position[2],
                                            to[j].position[2], f, p, s)>>

\* The scaled instance of the example: keyframes at 0 (Linear, [0,0]) and 4
\* ([100,0]) drawn at frame 2 give [50,0].
C1_Witness ==
    /\ Drawn
    /\ NoTracks
    /\ DOMAIN keyframes = {0, 4}
    /\ current_frame = 2
    /\ keyframes[0].tween.kind = "Linear"
    /\ keyframes[0].objects[1].position = <<I(0), I(0)>>
    /\ keyframes[4].objects[1].id = keyframes[0].objects[1].id
    /\ keyframes[4].objects[1].position = <<I(100), I(0)>>
    /\ last_op.result[1][1].position = <<I(50), I(0)>>

\* C2: in a layer without property tracks, when the predecessor keyframe is
\* at the target frame or has TweenKind None, resolve_frame returns exactly
\* the predecessor's object list, whatever later keyframes contain.
C2_ExactAtKeyframeAndHold ==
    NoTracks =>
      \A f \in Frames, p \in DOMAIN keyframes :
        (/\ IsPredecessor(keyframes, p, f)
         /\ (p = f \/ keyframes[p].tween.kind = "None"))
        => resolve_frame(CurrentLayer, f) = <<keyframes[p].objects>>

C2_Witness ==
    /\ Drawn
    /\ NoTracks
    /\ current_frame \in DOMAIN keyframes
    /\ keyframes[current_frame].tween.kind # "None"
    /\ keyframes[current_frame].objects # <<>>
    /\ \E s \in DOMAIN keyframes :
         /\ s > current_frame
         /\ keyframes[s].objects # keyframes[current_frame].objects
    /\ last_op.result = <<keyframes[current_frame].objects>>

NextLayer == Layer(keyframes', property_tracks')

\* The step applies ensure_keyframe_at to frame F.
EnsureStep(F) ==
    /\ last_op'.op = "ensure_keyframe_at"
    /\ last_op'.result[Len(last_op'.result)] = F

Interpolated(objects) ==
    \E i \in 1..Len(objects) :
        objects[i].position[1] \notin {I(0), I(100), I(5)}

C6_MaterializationCapturesResolvedState ==
    [][\A F \in Frames :
         EnsureStep(F)
         => /\ (F \notin DOMAIN keyframes
                    /\ resolve_frame(CurrentLayer, F) # <<>>)
               => /\ F \in DOMAIN keyframes'
                  /\ keyframes'[F].objects = resolve_frame(CurrentLayer, F)[1]
                  /\ resolve_frame(NextLayer, F)
                         = resolve_frame(CurrentLayer, F)
            /\ F \in DOMAIN keyframes => NextLayer = CurrentLayer]_vars

\* An interpolated, track-overlaid state was materialized.
C6_Witness ==
    /\ last_op.op = "ensure_keyframe_at"
    /\ Len(last_op.result) = 1
    /\ ~NoTracks
    /\ LET F == last_op.result[1]
       IN  /\ F \in DOMAIN keyframes
           /\ Interpolated(keyframes[F].objects)
           /\ \E i \in 1..Len(keyframes[F].objects) :
                /\ keyframes[F].objects[i].id \in DOMAIN property_tracks
                /\ keyframes[F].objects[i].rotation \in {I(90), I(200), I(180)}
           /\ resolve_frame(CurrentLayer, F) = <<keyframes[F].objects>>

\* C7: the second of two successive calls ensure_keyframe_at(layer, F)
\* leaves the keyframe map as the first call left it.
C7_IdempotentMaterialization ==
    [][(/\ last_op.op = "ensure_keyframe_at"
        /\ last_op'.op = "ensure_keyframe_at"
        /\ Len(last_op'.result) = Len(last_op.result) + 1
        /\ last_op'.result[Len(last_op'.result)]
              = last_op.result[Len(last_op.result)])
       => keyframes' = keyframes]_vars

\* The same frame was materialized twice, the first call creating a
\* keyframe with content.
C7_Witness ==
    /\ last_op.op = "ensure_keyframe_at"
    /\ Len(last_op.result) = 2
    /\ last_op.result[1] = last_op.result[2]
    /\ Interpolated(keyframes[last_op.result[2]].objects)

(***************************************************************************)
(* Editing discipline and the read path.                                   *)
(***************************************************************************)
Calls(op, name) == \E i \in 1..Len(op.calls) : op.calls[i] = name

\* C8: every editing operation that materializes or mutates a keyframe has
\* pushed the pre-edit project onto the undo history first, within the same
\* edit: snapshot, then ensure-keyframe, then mutate.
C8_SnapshotBeforeMaterialize ==
    [][(keyframes' # keyframes \/ Calls(last_op', "ensure_keyframe_at")
            \/ Calls(last_op', "mutate"))
       => /\ history' = Append(history, CurrentProject)
          /\ \A i \in 1..Len(last_op'.calls) :
               last_op'.calls[i] \in {"ensure_keyframe_at", "mutate"}
               => \E j \in 1..(i - 1) :
                    last_op'.calls[j] = "history.push"]_vars

\* C9: drawing, onion skins, export and playback steps leave the keyframe
\* map, the property tracks and the camera keyframes unchanged and never
\* call ensure_keyframe_at.
C9_ReadPathHasNoSideEffects ==
    [][/\ keyframes' = keyframes
       /\ property_tracks' = property_tracks
       /\ camera_keyframes' = camera_keyframes
       /\ ~Calls(last_op', "ensure_keyframe_at")]_vars

\* An export of a project with camera keyframes and an interpolated frame,
\* after playback has moved the playhead.
C9_Witness ==
    /\ last_op.op = "export"
    /\ DOMAIN camera_keyframes # {}
    /\ current_frame > 0
    /\ \E f \in 0..(TotalFrames - 1) :
         /\ f \notin DOMAIN keyframes
         /\ last_op.result[f].objects # <<>>
         /\ Interpolated(last_op.result[f].objects[1])
         /\ last_op.result[f].camera \notin
                {camera_keyframes[k] : k \in DOMAIN camera_keyframes}

\* The value of an angle track at frame f by the predecessor / successor /
\* easing pattern of the frame resolver: exact at an entry, held for tween
\* None and past the last entry, eased shortest-arc interpolation between.
TrackAngleByPattern(track, f) ==
    IF \A k \in DOMAIN track : k > f THEN <<>>
    ELSE LET p == SetMax({k \in DOMAIN track : k <= f})
             later == {k \in DOMAIN track : k > f}
         IN  IF p = f \/ track[p].tween.kind = "None" \/ later = {}
             THEN <<track[p].value>>
             ELSE <<lerp_angle(track[p].value, track[SetMin(later)].value,
                               apply_easing(Q(f - p, SetMin(later) - p),
                                            track[p].tween))>>

\* C10: for an object with a non-empty rotation track and an empty position
\* track, at every frame with content resolve_frame returns the rotation
\* resolved from the rotation track and the position computed from the
\* keyframes.
C10_TrackOverridePrecedence ==
    \A id \in DOMAIN property_tracks :
      (/\ DOMAIN property_tracks[id].rotation # {}
       /\ DOMAIN property_tracks[id].position = {})
      => \A f \in Frames :
           LET resolved == resolve_frame(CurrentLayer, f)
               base == resolve_frame(Layer(keyframes, EmptyMap), f)
               rotation ==
                   TrackAngleByPattern(property_tracks[id].rotation, f)
           IN  resolved # <<>>
               => \A k \in 1..Len(resolved[1]) :
                    resolved[1][k].id = id
                    => /\ rotation # <<>>
                       /\ resolved[1][k].rotation = rotation[1]
                       /\ resolved[1][k].position = base[1][k].position

(***************************************************************************)
(* Property tracks.                                                        *)
(***************************************************************************)
\* The value of a track at frame f by the predecessor / successor / easing
\* steps of the frame resolver, for the interpolation Lerp of its type:
\* nothing before the first entry, exact at an entry, held for tween None
\* and past the last entry, eased interpolation with
\* raw_t = (f - p) / (s - p) between two entries.
TrackByPattern(track, f, Lerp(_, _, _)) ==
    IF \A k \in DOMAIN track : k > f THEN <<>>
    ELSE LET p == SetMax({k \in DOMAIN track : k <= f})
             later == {k \in DOMAIN track : k > f}
         IN  IF p = f \/ track[p].tween.kind = "None" \/ later = {}
             THEN <<track[p].value>>
             ELSE <<Lerp(track[p].value, track[SetMin(later)].value,
                         apply_easing(Q(f - p, SetMin(later) - p),
                                      track[p].tween))>>

\* C11: every property track is resolved by the predecessor / successor /
\* easing steps of the frame resolver: past its last entry it yields that
\* entry's value whatever the entry's tween, and between two entries with
\* a non-None tween the eased interpolation with raw_t = (f - p) / (s - p).
C11_TracksFollowFrameResolverPattern ==
    \A id \in DOMAIN property_tracks, f \in Frames :
        LET tracks == property_tracks[id]
        IN  /\ resolve_track_arr2(tracks.position, f)
                  = TrackByPattern(tracks.position, f, lerp_arr2)
            /\ resolve_track_angle(tracks.rotation, f)
                  = TrackByPattern(tracks.rotation, f, lerp_angle)
            /\ resolve_track_arr2(tracks.scale, f)
                  = TrackByPattern(tracks.scale, f, lerp_arr2)
            /\ resolve_track_paint(tracks.fill, f)
                  = TrackByPattern(tracks.fill, f, lerp_paint)
            /\ resolve_track_paint(tracks.stroke, f)
                  = TrackByPattern(tracks.stroke, f, lerp_paint)
            /\ resolve_track_f32(tracks.stroke_width, f)
                  = TrackByPattern(tracks.stroke_width, f, lerp_f32)

\* The entry value the track must yield untouched at frame f: <<v>> when f
\* is an entry's frame or the predecessor entry has tween None, else <<>>.
ExactEntry(track, f) ==
    IF \E p \in DOMAIN track :
          IsPredecessor(track, p, f)
              /\ (p = f \/ track[p].tween.kind = "None")
    THEN <<track[SetMax({k \in DOMAIN track : k <= f})].value>>
    ELSE <<>>

\* The track yields the exact entry and every resolved object `id` carries
\* it in the attribute Attr.
ExactOverride(track, f, yielded, objects, id, Attr(_)) ==
    ExactEntry(track, f) # <<>>
    => /\ yielded = ExactEntry(track, f)
       /\ \A k \in 1..Len(objects) :
            objects[k].id = id => Attr(objects[k]) = ExactEntry(track, f)[1]

ResolvedObjects(f) ==
    IF resolve_frame(CurrentLayer, f) = <<>> THEN <<>>
    ELSE resolve_frame(CurrentLayer, f)[1]

\* C12: at an entry's frame, or after an entry with tween None, a track
\* yields exactly that entry's value, and the value replaces the object's
\* base attribute in the result of resolve_frame.
C12_TrackEntriesExact ==
    \A id \in DOMAIN property_tracks, f \in Frames :
        LET tracks == property_tracks[id]
            objects == ResolvedObjects(f)
        IN  /\ ExactOverride(tracks.position, f,
                             resolve_track_arr2(tracks.position, f),
                             objects, id, LAMBDA o : o.position)
            /\ ExactOverride(tracks.rotation, f,
                             resolve_track_angle(tracks.rotation, f),
                             objects, id, LAMBDA o : o.rotation)
            /\ ExactOverride(tracks.scale, f,
                             resolve_track_arr2(tracks.scale, f),
                             objects, id, LAMBDA o : o.scale)
            /\ ExactOverride(tracks.fill, f,
                             resolve_track_paint(tracks.fill, f),
                             objects, id, LAMBDA o : o.fill)
            /\ ExactOverride(tracks.stroke, f,
                             resolve_track_paint(tracks.stroke, f),
                             objects, id, LAMBDA o : o.stroke)
            /\ ExactOverride(tracks.stroke_width, f,
                             resolve_track_f32(tracks.stroke_width, f),
                             objects, id, LAMBDA o : o.stroke_width)

\* A frame was drawn on which a position entry with tween None, set at an
\* earlier frame, replaces the position of every keyframe.
C12_Witness ==
    /\ Drawn
    /\ current_frame = 3
    /\ 2 \in DOMAIN property_tracks
    /\ last_op.result # <<>>
    /\ \E k \in 1..Len(last_op.result[1]) :
         /\ last_op.result[1][k].id = 2
         /\ last_op.result[1][k].position = <<I(7), I(7)>>
    /\ \A f \in DOMAIN keyframes :
         \A i \in 1..Len(keyframes[f].objects) :
            keyframes[f].objects[i].position # <<I(7), I(7)>>

(***************************************************************************)
(* Identity of resolved objects.                                           *)
(***************************************************************************)
Ids(objects) == [i \in 1..Len(objects) |-> objects[i].id]

HasId(objects, id) == \E i \in 1..Len(objects) : objects[i].id = id

\* Object k of the predecessor keyframe p has no counterpart in the
\* keyframe that follows frame f.
Unmatched(p, k, f) ==
    \A s \in DOMAIN keyframes :
        IsSuccessor(keyframes, s, f)
        => ~HasId(keyframes[s].objects, keyframes[p].objects[k].id)

Tracked(id, name) ==
    /\ id \in DOMAIN property_tracks
    /\ DOMAIN property_tracks[id][name] # {}

AttributeNames ==
    {"position", "rotation", "scale", "fill", "stroke", "stroke_width"}

\* The resolved list has the predecessor's identifiers in the predecessor's
\* order, and no identifier that only the successor keyframe holds.
IdentitySet(f, p) ==
    /\ Ids(ResolvedObjects(f)) = Ids(keyframes[p].objects)
    /\ \A s \in DOMAIN keyframes :
         IsSuccessor(keyframes, s, f)
         => \A j \in 1..Len(keyframes[s].objects) :
              ~HasId(keyframes[p].objects, keyframes[s].objects[j].id)
              => ~HasId(ResolvedObjects(f), keyframes[s].objects[j].id)

\* C13 as stated: a resolved frame has exactly the predecessor's
\* identifiers in order, an object without a counterpart in the successor
\* keyframe is returned with all attributes equal to its predecessor
\* values, and an object of the successor alone does not appear.
C13_IdentitySetAllAttributesKept ==
    \A f \in Frames, p \in DOMAIN keyframes :
        IsPredecessor(keyframes, p, f)
        => /\ IdentitySet(f, p)
           /\ \A k \in 1..Len(keyframes[p].objects) :
                Unmatched(p, k, f)
                => ResolvedObjects(f)[k] = keyframes[p].objects[k]

\* C13 amended: as above, but an unmatched object keeps its predecessor
\* values in its shape and in every attribute that has no property track
\* for that object.
C13_IdentitySetUntrackedAttributesKept ==
    \A f \in Frames, p \in DOMAIN keyframes :
        IsPredecessor(keyframes, p, f)
        => /\ IdentitySet(f, p)
           /\ \A k \in 1..Len(keyframes[p].objects) :
                Unmatched(p, k, f)
                => LET from == keyframes[p].objects[k]
                       object == ResolvedObjects(f)[k]
                   IN  /\ object.id = from.id
                       /\ object.shape = from.shape
                       /\ \A name \in AttributeNames :
                            ~Tracked(from.id, name)
                            => object[name] = from[name]

\* A frame inside a tweened span was drawn; the predecessor holds an
\* object that the successor lacks and that carries a position track whose
\* value shows in the result, next to its untouched rotation.
C13_Witness ==
    /\ Drawn
    /\ 2 \in DOMAIN property_tracks
    /\ \E p \in DOMAIN keyframes, s \in DOMAIN keyframes :
         /\ IsPredecessor(keyframes, p, current_frame)
         /\ IsSuccessor(keyframes, s, current_frame)
         /\ p < current_frame
         /\ keyframes[p].tween.kind # "None"
         /\ HasId(keyframes[s].objects, 1)
         /\ ~HasId(keyframes[s].objects, 2)
         /\ \E k \in 1..Len(keyframes[p].objects) :
              /\ keyframes[p].objects[k].id = 2
              /\ last_op.result[1][k].id = 2
              /\ last_op.result[1][k].position = <<I(7), I(7)>>
              /\ keyframes[p].objects[k].position # <<I(7), I(7)>>
              /\ last_op.result[1][k].rotation = keyframes[p].objects[k].rotation

(***************************************************************************)
(* Frame arithmetic at the width of the frame type (u32).  The width is    *)
(* scaled down: U32_MAX stands for u32::MAX, the largest frame number.     *)
(* Arithmetic on frames wraps modulo U32_MAX + 1 in a build without        *)
(* overflow checks and panics in a build with them.                        *)
(***************************************************************************)
U32_MAX == 7

FramesU32 == 0..U32_MAX

u32_add(a, b) ==
    [overflow |-> a + b > U32_MAX, value |-> (a + b) % (U32_MAX + 1)]

u32_sub(a, b) ==
    [overflow |-> a < b, value |-> (a - b + U32_MAX + 1) % (U32_MAX + 1)]

\* What a resolver call did with frame numbers: whether it panicked,
\* whether an operation wrapped, and the spans whose raw_t it computed.
Outcome(panic, overflow, spans) ==
    [panic |-> panic, overflow |-> overflow, spans |-> spans]

NoSpan == Outcome(FALSE, FALSE, {})

Panicked == Outcome(TRUE, TRUE, {})

SpanOf(prev_frame, frame, next_frame, elapsed, divisor) ==
    [prev_frame |-> prev_frame, frame |-> frame, next_frame |-> next_frame,
     elapsed |-> elapsed, divisor |-> divisor]

Join(a, b) ==
    Outcome(a.panic \/ b.panic, a.overflow \/ b.overflow,
            a.spans \cup b.spans)

\* let raw_t = (frame - prev_frame) as f32 / (next_frame - prev_frame) as f32
raw_t_u32(frame, prev_frame, next_frame, overflow_checks) ==
    IF u32_sub(frame, prev_frame).overflow
       \/ u32_sub(next_frame, prev_frame).overflow
    THEN IF overflow_checks THEN Panicked
         ELSE Outcome(FALSE, TRUE,
                      {SpanOf(prev_frame, frame, next_frame,
                              u32_sub(frame, prev_frame).value,
                              u32_sub(next_frame, prev_frame).value)})
    ELSE Outcome(FALSE, FALSE,
                 {SpanOf(prev_frame, frame, next_frame, frame - prev_frame,
                         next_frame - prev_frame)})

\* The first key at or after start, then raw_t.
span_from(map, start, frame, prev_frame, overflow_checks) ==
    IF \A k \in DOMAIN map : k < start THEN NoSpan
    ELSE raw_t_u32(frame, prev_frame,
                   SetMin({k \in DOMAIN map : k >= start}), overflow_checks)

\* map.range((frame + 1)..).next(), then raw_t.
successor_span(map, frame, prev_frame, overflow_checks) ==
    IF u32_add(frame, 1).overflow
    THEN IF overflow_checks THEN Panicked
         ELSE Join(Outcome(FALSE, TRUE, {}),
                   span_from(map, u32_add(frame, 1).value, frame, prev_frame,
                             overflow_checks))
    ELSE span_from(map, frame + 1, frame, prev_frame, overflow_checks)

\* The frame arithmetic of resolve_track_f32 / _angle / _arr2 / _paint.
resolve_track_u32(track, frame, overflow_checks) ==
    IF DOMAIN track = {} THEN NoSpan
    ELSE IF PrevKey(track, frame) = <<>> THEN NoSpan
    ELSE IF PrevKey(track, frame)[1] = frame
            \/ track[PrevKey(track, frame)[1]].tween.kind = "None"
         THEN NoSpan
    ELSE successor_span(track, frame, PrevKey(track, frame)[1],
                        overflow_checks)

TrackNames ==
    {"position", "rotation", "scale", "fill", "stroke", "stroke_width"}

JoinAll(outcomes) ==
    Outcome(\E o \in outcomes : o.panic, \E o \in outcomes : o.overflow,
            UNION {o.spans : o \in outcomes})

\* The frame arithmetic of the overlay loop of resolve_frame: the objects
\* of the result carry the identifiers of the predecessor keyframe.
overlay_u32(layer, frame, prev_frame, overflow_checks) ==
    JoinAll({resolve_track_u32(layer.property_tracks[id][name], frame,
                               overflow_checks) :
                id \in {layer.keyframes[prev_frame].objects[i].id :
                           i \in 1..Len(layer.keyframes[prev_frame].objects)}
                       \cap DOMAIN layer.property_tracks,
                name \in TrackNames})

base_u32(layer, frame, prev_frame, overflow_checks) ==
    IF prev_frame = frame \/ layer.keyframes[prev_frame].tween.kind = "None"
    THEN NoSpan
    ELSE successor_span(layer.keyframes, frame, prev_frame, overflow_checks)

then_overlay(base, layer, frame, prev_frame, overflow_checks) ==
    IF base.panic THEN base
    ELSE Join(base, overlay_u32(layer, frame, prev_frame, overflow_checks))

\* The frame arithmetic of resolve_frame.
resolve_frame_u32(layer, frame, overflow_checks) ==
    IF PrevKey(layer.keyframes, frame) = <<>> THEN NoSpan
    ELSE then_overlay(base_u32(layer, frame,
                               PrevKey(layer.keyframes, frame)[1],
                               overflow_checks),
                      layer, frame, PrevKey(layer.keyframes, frame)[1],
                      overflow_checks)

\* The frame arithmetic of resolve_camera.
resolve_camera_u32(cam_keyframes, cam_tween, frame, overflow_checks) ==
    IF DOMAIN cam_keyframes = {} THEN NoSpan
    ELSE IF PrevKey(cam_keyframes, frame) = <<>> THEN NoSpan
    ELSE IF PrevKey(cam_keyframes, frame)[1] = frame THEN NoSpan
    ELSE IF cam_tween.kind = "None" THEN NoSpan
    ELSE successor_span(cam_keyframes, frame,
                        PrevKey(cam_keyframes, frame)[1], overflow_checks)

\* The value of a call: none after a panic, and not evaluated here when an
\* operation wrapped (it is then built from a raw_t that does not belong
\* to the keyframes around the frame).
Returned(outcome, value) ==
    [panic |-> outcome.panic, overflow |-> outcome.overflow,
     spans |-> outcome.spans,
     value |-> IF outcome.overflow THEN <<>> ELSE <<value>>]

KeysU32 == {0, 2, U32_MAX - 1, U32_MAX}

CameraCatalogU32 ==
    CameraCatalog \cup
    {[f \in {1, U32_MAX} |->
        IF f = 1 THEN CameraKeyframe(<<I(6), I(0)>>, I(1), I(10))
                 ELSE CameraKeyframe(<<I(0), I(12)>>, I(3), I(350))]}

AllTweens ==
    {TweenNone, TweenLinear, TweenEaseIn, TweenEaseOut, TweenEaseInOut,
     TweenCubicBezier(Q(1, 3), I(0), Q(2, 3), I(1))}

\* The inputs of the resolvers: keyframes may sit at any frame number.
InitU32 ==
    /\ \/ /\ \E K \in SUBSET KeysU32,
                offset \in 0..(Len(KeyframeCatalog) - 1) :
                /\ Cardinality(K) <= MaxKeys
                /\ keyframes = InitialKeyframes(K, offset)
          /\ property_tracks \in TrackCatalog
          /\ camera_keyframes = EmptyMap
          /\ camera_tween = TweenNone
       \/ /\ keyframes = InitialKeyframes({0}, 0)
          /\ property_tracks = EmptyMap
          /\ camera_keyframes \in CameraCatalogU32
          /\ camera_tween \in AllTweens
    /\ current_frame = 0
    /\ history = <<>>
    /\ edits = 0
    /\ last_op = Op("load", <<>>, <<>>)
    /\ loop_start = <<>>
    /\ loop_end = <<>>
    /\ playback = PlaybackDefault

ResolveFrameAt ==
    \E frame \in FramesU32, overflow_checks \in BOOLEAN :
        /\ last_op' = Op("resolve_frame", <<frame, overflow_checks>>,
                         Returned(resolve_frame_u32(CurrentLayer, frame,
                                                    overflow_checks),
                                  resolve_frame(CurrentLayer, frame)))
        /\ UNCHANGED <<projectVars, current_frame, playback, history, edits>>

ResolveTrackAt ==
    \E id \in DOMAIN property_tracks, name \in {"rotation", "stroke_width"},
       frame \in FramesU32, overflow_checks \in BOOLEAN :
        /\ last_op' = Op("resolve_track", <<id, name, frame, overflow_checks>>,
                         Returned(resolve_track_u32(property_tracks[id][name],
                                                    frame, overflow_checks),
                                  IF name = "rotation"
                                  THEN resolve_track_angle(
                                           property_tracks[id][name], frame)
                                  ELSE resolve_track_f32(
                                           property_tracks[id][name], frame)))
        /\ UNCHANGED <<projectVars, current_frame, playback, history, edits>>

ResolveCameraAt ==
    \E frame \in FramesU32, overflow_checks \in BOOLEAN :
        /\ last_op' = Op("resolve_camera", <<frame, overflow_checks>>,
                         Returned(resolve_camera_u32(camera_keyframes,
                                                     camera_tween, frame,
                                                     overflow_checks),
                                  resolve_camera(camera_keyframes,
                                                 camera_tween, frame)))
        /\ UNCHANGED <<projectVars, current_frame, playback, history, edits>>

NextU32 == \/ ResolveFrameAt
           \/ ResolveTrackAt
           \/ ResolveCameraAt

SpecU32 == InitU32 /\ [][NextU32]_vars

Resolved ==
    last_op.op \in {"resolve_frame", "resolve_track", "resolve_camera"}

\* C14: whenever a resolver computes raw_t, the predecessor frame p, the
\* target frame f and the successor frame s satisfy p < f < s, the divisor
\* s - p is positive and 0 < raw_t < 1.
C14_NoZeroLengthSpan ==
    Resolved
    => \A span \in last_op.result.spans :
         /\ span.prev_frame < span.frame
         /\ span.frame < span.next_frame
         /\ span.divisor > 0
         /\ 0 < span.elapsed
         /\ span.elapsed < span.divisor

\* C15: every resolver call completes without panic and without unsigned
\* overflow or underflow, for every frame number up to the maximum and for
\* layers without keyframes.
C15_NoPanicOnAnyFrame ==
    Resolved => ~last_op.result.panic /\ ~last_op.result.overflow

(***************************************************************************)
(* The interpolation functions on their own inputs.                        *)
(***************************************************************************)
AngleInputs == {I(0), I(10), I(90), I(180), I(350), I(-170), I(540)}

ParameterInputs == {I(0), Q(1, 4), Q(1, 2), I(1)}

ControlXInputs == {I(0), Q(1, 4), Q(1, 2), I(1)}

ControlYInputs == {<<I(0), I(1)>>, <<I(2), I(-1)>>, <<Q(1, 2), Q(1, 2)>>}

EasingInputs == {I(0), Q(1, 8), Q(1, 4), Q(1, 2), Q(3, 4), I(1)}

MaxPoints == 3

PointInputs ==
    {Corner(I(0), I(0)), Corner(I(4), I(0)),
     PathPoint(<<I(4), I(8)>>, <<<<I(1), I(1)>>>>, <<>>, Q(1, 2))}

PointLists == UNION {[1..n -> PointInputs] : n \in 0..MaxPoints}

FivePoints ==
    <<Corner(I(0), I(0)), Corner(I(4), I(0)), Corner(I(4), I(8)),
      PathPoint(<<I(0), I(8)>>, <<<<I(1), I(1)>>>>, <<>>, Q(1, 2)),
      Corner(I(2), I(12))>>

\* Paths of 0, 1, 2, 3 and 5 points, open and closed, and two shapes that
\* are converted to paths before they are morphed.
ShapeInputs ==
    {Path(SubSeq(FivePoints, 1, n), closed) :
        n \in {0, 1, 2, 3, 5}, closed \in BOOLEAN}
    \cup {Path(<<Corner(I(6), I(6)), Corner(I(0), I(2))>>, FALSE),
          Rectangle(I(10), I(10), I(0)), Line(I(4), I(8))}

\* Solid paints, gradients with stops and a gradient without stops.
PaintInputs ==
    {Solid(Red), Solid(<<I(0), Q(1, 2), I(1), Q(1, 2)>>), Grad,
     LinearGradient(<<I(0), I(0)>>, <<I(1), I(0)>>, <<>>),
     RadialGradient(<<I(0), I(0)>>, I(1),
                    <<GradientStop(Q(1, 4), Red), GradientStop(I(1), Black)>>)}

\* One object whose fill is `from` in a tweened keyframe at frame 0 and `to`
\* in the keyframe at the last frame.
PaintKeyframes(from, to) ==
    [f \in {0, MaxFrame} |->
        IF f = 0
        THEN Keyframe(<<[ObjA0 EXCEPT !.fill = from]>>, TweenLinear, "", "",
                      FALSE)
        ELSE Keyframe(<<[ObjA0 EXCEPT !.fill = to]>>, TweenNone, "", "",
                      FALSE)]

\* A fill track on that object.
PaintTracks == [id \in {1} |-> [NoTrack EXCEPT !.fill = FillTrack]]

PlainLayer ==
    /\ keyframes = InitialKeyframes({0}, 0)
    /\ property_tracks = EmptyMap
    /\ current_frame = 0

\* The arguments of one call, drawn before the call is made.
InitPure ==
    /\ camera_keyframes = EmptyMap
    /\ camera_tween = TweenNone
    /\ history = <<>>
    /\ edits = 0
    /\ \/ /\ PlainLayer
          /\ \/ \E a \in AngleInputs, b \in AngleInputs,
                   t \in ParameterInputs :
                  last_op = Op("call", <<a, b, t>>, <<>>)
             \/ \E t \in EasingInputs, x1 \in ControlXInputs,
                   x2 \in ControlXInputs, y \in ControlYInputs :
                  last_op = Op("call", <<t, x1, y[1], x2, y[2]>>, <<>>)
             \/ \E from \in PointLists, to \in PointLists :
                  last_op = Op("call_normalize", <<from, to>>, <<>>)
             \/ \E from \in ShapeInputs, to \in ShapeInputs,
                   t \in ParameterInputs :
                  last_op = Op("call_shape", <<from, to, t>>, <<>>)
       \/ \E from \in PaintInputs, to \in PaintInputs, t \in ParameterInputs :
            /\ keyframes = PaintKeyframes(from, to)
            /\ property_tracks \in {EmptyMap, PaintTracks}
            /\ current_frame \in 1..(MaxFrame - 1)
            /\ last_op = Op("call_paint", <<from, to, t>>, <<>>)
    /\ loop_start = <<>>
    /\ loop_end = <<>>
    /\ playback = PlaybackDefault

\* lerp_angle of tween.rs and its copy in camera.rs.
LerpAngle ==
    /\ last_op.op = "call"
    /\ Len(last_op.calls) = 3
    /\ last_op' = Op("lerp_angle", last_op.calls,
                     [tween |-> lerp_angle(last_op.calls[1], last_op.calls[2],
                                           last_op.calls[3]),
                      camera |-> camera_lerp_angle(last_op.calls[1],
                                                   last_op.calls[2],
                                                   last_op.calls[3])])
    /\ UNCHANGED <<projectVars, current_frame, playback, history, edits>>

\* diff reduced by whole turns into the half-open interval (-PI, PI].
ShortestArc(diff) ==
    CHOOSE d \in {RAdd(diff, RMul(I(k), RMul(I(2), PI))) : k \in -2..2} :
        RLt(RSub(I(0), PI), d) /\ ~RLt(PI, d)

WholeTurns(x) == x[2] = 1 /\ x[1] % (2 * PI[1]) = 0

\* C16: lerp_angle(a, b, t) returns a + d * t where d is b - a reduced by
\* whole turns into (-PI, PI]; from 350 degrees to 10 degrees at t = 1/2
\* the result is the direction 0 degrees, not 180 degrees.
C16_ShortestArcRotation ==
    last_op.op = "lerp_angle"
    => LET a == last_op.calls[1]
           b == last_op.calls[2]
           t == last_op.calls[3]
           expected == RAdd(a, RMul(ShortestArc(RSub(b, a)), t))
       IN  /\ last_op.result.tween = expected
           /\ last_op.result.camera = expected
           /\ (a = I(350) /\ b = I(10) /\ t = Q(1, 2))
              => WholeTurns(last_op.result.tween)

(***************************************************************************)
(* Camera resolver.                                                        *)
(***************************************************************************)
\* A layer with one object whose position, scale and rotation are the
\* camera's position, zoom and rotation, every keyframe carrying `tween`.
CameraAsLayer(cam_keyframes, tween) ==
    Layer([f \in DOMAIN cam_keyframes |->
              Keyframe(<<AnimObject(1, Rectangle(I(1), I(1), I(0)),
                                    cam_keyframes[f].position,
                                    cam_keyframes[f].rotation,
                                    <<cam_keyframes[f].zoom,
                                      cam_keyframes[f].zoom>>,
                                    Solid(Red), Solid(Black), I(1))>>,
                       tween, "", "", FALSE)],
          EmptyMap)

\* The pose seen through the one object of a resolved CameraAsLayer.
PoseOf(resolved) ==
    CameraKeyframe(resolved[1][1].position, resolved[1][1].scale[1],
                   resolved[1][1].rotation)

\* The deltas that differ from diff by whole turns and are no longer than
\* half a turn.
ShortArcs(diff) ==
    {d \in {RAdd(diff, RMul(I(k), RMul(I(2), PI))) : k \in -2..2} :
        ~RLt(PI, RAbs(d))}

\* from + (to - from) * t
Eased(from, to, t) == RAdd(from, RMul(RSub(to, from), t))

\* The pose between keyframes a and b at the eased parameter t.
IsInterpolatedPose(pose, a, b, t) ==
    /\ pose.position[1] = Eased(a.position[1], b.position[1], t)
    /\ pose.position[2] = Eased(a.position[2], b.position[2], t)
    /\ pose.zoom = Eased(a.zoom, b.zoom, t)
    /\ \E d \in ShortArcs(RSub(b.rotation, a.rotation)) :
         pose.rotation = RAdd(a.rotation, RMul(d, t))

CameraCase(pose, f, p) ==
    IF \/ p = f
       \/ camera_tween.kind = "None"
       \/ \A s \in DOMAIN camera_keyframes : s <= f
    THEN pose = camera_keyframes[p]
    ELSE \E s \in DOMAIN camera_keyframes :
           /\ IsSuccessor(camera_keyframes, s, f)
           /\ IsInterpolatedPose(pose, camera_keyframes[p],
                                 camera_keyframes[s],
                                 apply_easing(Q(f - p, s - p), camera_tween))

C18_CameraDefaultPose ==
    (last_op.op = "resolve_camera" /\ DOMAIN camera_keyframes = {})
    => /\ last_op.result.value =
             <<[position |-> <<I(0), I(0)>>, zoom |-> I(1),
                rotation |-> I(0)]>>
       /\ ~last_op.result.panic
       /\ ~last_op.result.overflow

\* The camera of a project without camera keyframes was resolved at the
\* largest frame number under a cubic-Bezier camera tween.
C18_Witness ==
    /\ last_op.op = "resolve_camera"
    /\ camera_keyframes = EmptyMap
    /\ camera_tween.kind = "CubicBezier"
    /\ last_op.calls[1] = U32_MAX
    /\ last_op.result.value = <<CameraKeyframe(<<I(0), I(0)>>, I(1), I(0))>>

(***************************************************************************)
(* Cubic-Bezier easing on its own inputs.                                  *)
(***************************************************************************)
CubicBezierEasing ==
    /\ last_op.op = "call"
    /\ Len(last_op.calls) = 5
    /\ last_op' = Op("cubic_bezier_easing", last_op.calls,
                     [value |-> cubic_bezier_easing(
                                    last_op.calls[1], last_op.calls[2],
                                    last_op.calls[3], last_op.calls[4],
                                    last_op.calls[5]),
                      guesses |-> bezier_trace(<<last_op.calls[1]>>,
                                               last_op.calls[1],
                                               last_op.calls[2],
                                               last_op.calls[4],
                                               BezierIterations)])
    /\ UNCHANGED <<projectVars, current_frame, playback, history, edits>>

\* normalize_path_points on two point lists, with the number of points the
\* subdivision loop inserted into the shorter one.
NormalizePathPoints ==
    /\ last_op.op = "call_normalize"
    /\ last_op' = Op("normalize_path_points", last_op.calls,
                     [normalized |-> normalize_path_points(last_op.calls[1],
                                                           last_op.calls[2]),
                      inserted |-> IF Len(last_op.calls[1])
                                        < Len(last_op.calls[2])
                                   THEN subdivide_iterations(
                                            last_op.calls[1],
                                            Len(last_op.calls[2]))
                                   ELSE subdivide_iterations(
                                            last_op.calls[2],
                                            Len(last_op.calls[1]))])
    /\ UNCHANGED <<projectVars, current_frame, playback, history, edits>>

\* interpolate_shape as interpolate_object calls it when shapes are tweened.
InterpolateShape ==
    /\ last_op.op = "call_shape"
    /\ last_op' = Op("interpolate_shape", last_op.calls,
                     interpolate_shape(last_op.calls[1], last_op.calls[2],
                                       last_op.calls[3]))
    /\ UNCHANGED <<projectVars, current_frame, playback, history, edits>>

\* lerp_paint on a pair of paints, and the frame drawn from a layer whose
\* two keyframes hold these paints as the fill of one object.
LerpPaint ==
    /\ last_op.op = "call_paint"
    /\ last_op' = Op("lerp_paint", last_op.calls,
                     [paint |-> lerp_paint(last_op.calls[1], last_op.calls[2],
                                           last_op.calls[3]),
                      objects |-> resolve_frame(Layer(keyframes,
                                                      property_tracks),
                                                current_frame)[1]])
    /\ UNCHANGED <<projectVars, current_frame, playback, history, edits>>

NextPure == \/ LerpAngle
            \/ CubicBezierEasing
            \/ NormalizePathPoints
            \/ InterpolateShape
            \/ LerpPaint

SpecPure == InitPure /\ [][NextPure]_vars

InUnitInterval(x) == ~RLt(x, I(0)) /\ ~RLt(I(1), x)

\* C19: for control points with x1 and x2 in [0,1] and any y1, y2 the
\* easing evaluator returns 0 at t = 0 and 1 at t = 1; the inversion loop
\* runs at most 8 iterations and the internal parameter lies in [0,1]
\* after every step.
C19_CubicBezierBoundaryConditions ==
    last_op.op = "cubic_bezier_easing"
    => /\ InUnitInterval(last_op.calls[2]) /\ InUnitInterval(last_op.calls[4])
       /\ last_op.calls[1] = I(0) => last_op.result.value = I(0)
       /\ last_op.calls[1] = I(1) => last_op.result.value = I(1)
       /\ Len(last_op.result.guesses) - 1 <= 8
       /\ \A i \in 1..Len(last_op.result.guesses) :
            InUnitInterval(last_op.result.guesses[i])
       /\ last_op.result.value =
             cubic_bezier_sample(
                 last_op.result.guesses[Len(last_op.result.guesses)],
                 last_op.calls[3], last_op.calls[5])

\* The easing was evaluated inside the unit interval with a loop that used
\* all its iterations and was clamped to 0 on the way.
C19_Witness ==
    /\ last_op.op = "cubic_bezier_easing"
    /\ last_op.calls[1] = Q(3, 4)
    /\ Len(last_op.result.guesses) = BezierIterations + 1
    /\ last_op.result.guesses[2] = I(0)
    /\ last_op.result.guesses[3] # I(0)

(***************************************************************************)
(* The keyframe created by materialization.                                *)
(***************************************************************************)
\* The step creates a keyframe at F.
Creates(F) == EnsureStep(F) /\ F \notin DOMAIN keyframes

CreatedPlain(F) ==
    /\ F \in DOMAIN keyframes'
    /\ keyframes'[F].tween = TweenNone
    /\ keyframes'[F].shape_tween = FALSE
    /\ keyframes'[F].label = ""
    /\ keyframes'[F].comment = ""
    /\ (\A k \in DOMAIN keyframes : k > F) => keyframes'[F].objects = <<>>

\* F lies inside a tweened span and g after F inside the same span.
InTweenedSpanAfter(F, g) ==
    /\ \E p \in DOMAIN keyframes :
         IsPredecessor(keyframes, p, F) /\ keyframes[p].tween.kind # "None"
    /\ \E s \in DOMAIN keyframes : IsSuccessor(keyframes, s, F) /\ g < s
    /\ F < g

\* `object` has the shape of `from` and the value of `from` in every
\* attribute without a property track.
UntrackedKept(object, from) ==
    /\ object.id = from.id
    /\ object.shape = from.shape
    /\ \A name \in AttributeNames :
         ~Tracked(from.id, name) => object[name] = from[name]

\* C20 as stated: a keyframe created by ensure_keyframe_at has tween None,
\* shape_tween false, empty label and comment, and no objects when F
\* precedes every keyframe; right after materializing F inside a tweened
\* span every frame g with F < g < successor resolves to the snapshot taken
\* at F.
C20_CreatedKeyframeHoldsSnapshot ==
    [][\A F \in Frames :
         Creates(F)
         => /\ CreatedPlain(F)
            /\ \A g \in Frames :
                 InTweenedSpanAfter(F, g)
                 => resolve_frame(NextLayer, g)
                       = <<keyframes'[F].objects>>]_vars

\* C20 amended: as above, but a frame g with F < g < successor resolves to
\* the objects of the snapshot with every attribute that has no property
\* track equal to the snapshot's value.
C20_CreatedKeyframeHoldsUntracked ==
    [][\A F \in Frames :
         Creates(F)
         => /\ CreatedPlain(F)
            /\ \A g \in Frames :
                 InTweenedSpanAfter(F, g)
                 => /\ resolve_frame(NextLayer, g) # <<>>
                    /\ Len(resolve_frame(NextLayer, g)[1])
                          = Len(keyframes'[F].objects)
                    /\ \A k \in 1..Len(keyframes'[F].objects) :
                         UntrackedKept(resolve_frame(NextLayer, g)[1][k],
                                       keyframes'[F].objects[k])]_vars

\* A keyframe was created inside a tweened span of a layer with property
\* tracks, with a frame left between it and the successor; it has tween
\* None and holds an interpolated object that carries tracks.
C20_Witness ==
    /\ last_op.op = "ensure_keyframe_at"
    /\ Len(last_op.result) = 1
    /\ ~NoTracks
    /\ LET F == last_op.result[1]
       IN  /\ F \in DOMAIN keyframes
           /\ keyframes[F].tween = TweenNone
           /\ Interpolated(keyframes[F].objects)
           /\ \E i \in 1..Len(keyframes[F].objects) :
                keyframes[F].objects[i].id \in DOMAIN property_tracks
           /\ \E p \in DOMAIN keyframes, q \in DOMAIN keyframes :
                /\ p < F
                /\ F + 1 < q
                /\ keyframes[p].tween.kind # "None"
                /\ resolve_frame(CurrentLayer, F + 1) # <<keyframes[F].objects>>

FirstWithId(objects, id) ==
    objects[CHOOSE j \in 1..Len(objects) :
                /\ objects[j].id = id
                /\ \A i \in 1..(j - 1) : objects[i].id # id]

\* The colour a paint is interpolated from: its own colour, or the colour
\* of the first stop of a gradient (opaque black without stops).
PaintColour(paint) ==
    IF paint.kind = "Solid" THEN paint.color
    ELSE IF paint.stops # <<>> THEN paint.stops[1].color
    ELSE <<I(0), I(0), I(0), I(1)>>

IsBlend(paint, from, to, t) ==
    /\ paint.kind = "Solid"
    /\ \A c \in 1..4 :
         paint.color[c] = Eased(PaintColour(from)[c], PaintColour(to)[c], t)

\* Every attribute of `object` without a property track is interpolated
\* between `from` and `to` at the eased parameter t.
AttributesInterpolated(object, from, to, t) ==
    /\ ~Tracked(from.id, "position")
       => object.position = <<Eased(from.position[1], to.position[1], t),
                              Eased(from.position[2], to.position[2], t)>>
    /\ ~Tracked(from.id, "rotation")
       => \E d \in ShortArcs(RSub(to.rotation, from.rotation)) :
            object.rotation = RAdd(from.rotation, RMul(d, t))
    /\ ~Tracked(from.id, "scale")
       => object.scale = <<Eased(from.scale[1], to.scale[1], t),
                           Eased(from.scale[2], to.scale[2], t)>>
    /\ ~Tracked(from.id, "fill") => IsBlend(object.fill, from.fill, to.fill, t)
    /\ ~Tracked(from.id, "stroke")
       => IsBlend(object.stroke, from.stroke, to.stroke, t)
    /\ ~Tracked(from.id, "stroke_width")
       => object.stroke_width = Eased(from.stroke_width, to.stroke_width, t)

\* Frame f lies strictly inside the tweened span from keyframe p to s.
InsideTweenedSpan(f, p, s) ==
    /\ IsPredecessor(keyframes, p, f)
    /\ IsSuccessor(keyframes, s, f)
    /\ p < f
    /\ keyframes[p].tween.kind # "None"

ShapeOfMatched(f, p, s, k, t) ==
    LET from == keyframes[p].objects[k]
        to == FirstWithId(keyframes[s].objects, from.id)
        object == ResolvedObjects(f)[k]
    IN  /\ AttributesInterpolated(object, from, to, t)
        /\ ~keyframes[p].shape_tween => object.shape = from.shape
        /\ keyframes[p].shape_tween
           => object.shape = interpolate_shape(from.shape, to.shape, t)

RECURSIVE IsSubsequence(_, _)
IsSubsequence(a, b) ==
    IF a = <<>> THEN TRUE
    ELSE IF b = <<>> THEN FALSE
    ELSE IF Head(a) = Head(b) THEN IsSubsequence(Tail(a), Tail(b))
    ELSE IsSubsequence(a, Tail(b))

Normalized == last_op.op = "normalize_path_points"

Longer(from, to) == IF Len(from) < Len(to) THEN Len(to) ELSE Len(from)

\* The result for the longer and for the shorter of the two inputs (from
\* is the shorter one only when it is strictly shorter).
Equalized(from, to, normalized, inserted) ==
    /\ Len(normalized[1]) = Len(normalized[2])
    /\ Len(normalized[1]) = Longer(from, to)
    /\ Len(from) < Len(to)
       => normalized[2] = to /\ IsSubsequence(from, normalized[1])
    /\ Len(from) >= Len(to)
       => normalized[1] = from /\ IsSubsequence(to, normalized[2])
    /\ inserted = Longer(from, to) - Min2(Len(from), Len(to))

\* C23: for any two path point lists normalize_path_points returns two
\* lists whose length is the longer input's length; the longer list is
\* returned unchanged, the points of the shorter list all remain in their
\* order, and the subdivision loop inserts exactly (longer length - shorter
\* length) points.
C23_NormalizationEqualizesLengths ==
    Normalized
    => Equalized(last_op.calls[1], last_op.calls[2],
                 last_op.result.normalized, last_op.result.inserted)

\* The same for a shorter list of at least two points, or equal lengths.
C23_EqualizedFromTwoPoints ==
    /\ Normalized
    /\ \/ Len(last_op.calls[1]) = Len(last_op.calls[2])
       \/ Min2(Len(last_op.calls[1]), Len(last_op.calls[2])) >= 2
    => Equalized(last_op.calls[1], last_op.calls[2],
                 last_op.result.normalized, last_op.result.inserted)

\* A shorter list without a segment is returned as it is.
C23_ShortListUnchanged ==
    /\ Normalized
    /\ Min2(Len(last_op.calls[1]), Len(last_op.calls[2])) < 2
    => last_op.result.normalized = <<last_op.calls[1], last_op.calls[2]>>

(***************************************************************************)
(* Path morph endpoints.                                                   *)
(***************************************************************************)
Positions(points) == [i \in 1..Len(points) |-> points[i].position]

\* interpolate_shape was called on two paths of unequal point count.
MorphedUnequalPaths ==
    /\ last_op.op = "interpolate_shape"
    /\ last_op.calls[1].kind = "Path"
    /\ last_op.calls[2].kind = "Path"
    /\ Len(last_op.calls[1].points) # Len(last_op.calls[2].points)

MorphEndpoints(from, to, t, shape) ==
    /\ shape.kind = "Path"
    /\ Len(shape.points) = Longer(from.points, to.points)
    /\ t = I(0)
       => Positions(shape.points)
            = Positions(normalize_path_points(from.points, to.points)[1])
    /\ t = I(1)
       => Positions(shape.points)
            = Positions(normalize_path_points(from.points, to.points)[2])
    /\ shape.closed = IF RLt(t, Q(1, 2)) THEN from.closed ELSE to.closed

\* C24: shape-tweening two paths of unequal point count (5 points to 2
\* points, for one) yields a path with as many points as the longer list;
\* at t = 0 its positions are those of the normalized "from" list and at
\* t = 1 those of the normalized "to" list; its closed flag is the
\* from-shape's for t < 1/2 and the to-shape's from t = 1/2 on.
C24_PathMorphEndpoints ==
    MorphedUnequalPaths
    => MorphEndpoints(last_op.calls[1], last_op.calls[2], last_op.calls[3],
                      last_op.result)

\* The same when the path with fewer points has at least two.
C24_MorphEndpointsFromTwoPoints ==
    /\ MorphedUnequalPaths
    /\ Min2(Len(last_op.calls[1].points), Len(last_op.calls[2].points)) >= 2
    => MorphEndpoints(last_op.calls[1], last_op.calls[2], last_op.calls[3],
                      last_op.result)

\* A path of fewer than two points truncates the morph to its own length.
C24_MorphTruncated ==
    /\ MorphedUnequalPaths
    /\ Min2(Len(last_op.calls[1].points), Len(last_op.calls[2].points)) < 2
    => Len(last_op.result.points)
         = Min2(Len(last_op.calls[1].points), Len(last_op.calls[2].points))

(***************************************************************************)
(* Paint interpolation.                                                    *)
(***************************************************************************)
PaintLerped == last_op.op = "lerp_paint"

IsGradient(paint) == paint.kind # "Solid"

\* C25 as stated: lerp_paint returns a solid paint for every pair of
\* paints, each channel interpolated linearly between the paints' colours
\* (a gradient counts as its first stop's colour, opaque black without
\* stops), so an object whose fill is the same gradient in both keyframes
\* resolves to a solid fill at every frame strictly inside a tweened span.
C25_PaintInterpolationSolid ==
    PaintLerped
    => /\ IsBlend(last_op.result.paint, last_op.calls[1], last_op.calls[2],
                  last_op.calls[3])
       /\ last_op.calls[1] = last_op.calls[2] /\ IsGradient(last_op.calls[1])
          => last_op.result.objects[1].fill.kind = "Solid"

\* C25, amended: lerp_paint returns a solid paint for every pair of paints,
\* each channel interpolated linearly between the paints' colours; an
\* object whose fill is the same gradient in both keyframes and has no fill
\* track resolves, strictly inside a tweened span, to the solid colour of
\* the gradient's first stop, while a fill track decides the fill of a
\* tracked object wherever it has a value.
C25_PaintInterpolationSolidUntracked ==
    PaintLerped
    => /\ IsBlend(last_op.result.paint, last_op.calls[1], last_op.calls[2],
                  last_op.calls[3])
       /\ /\ last_op.calls[1] = last_op.calls[2]
          /\ IsGradient(last_op.calls[1])
          /\ ~Tracked(1, "fill")
          => last_op.result.objects[1].fill
               = Solid(PaintColour(last_op.calls[1]))
       /\ Tracked(1, "fill")
          => \A value \in {resolve_track_paint(property_tracks[1].fill,
                                               current_frame)} :
               value # <<>> => last_op.result.objects[1].fill = value[1]

\* The same gradient in both keyframes was drawn inside the span of a layer
\* without tracks and gave the solid colour of its first stop.
C25_Witness ==
    /\ PaintLerped
    /\ last_op.calls[1] = Grad
    /\ last_op.calls[2] = Grad
    /\ NoTracks
    /\ last_op.result.paint = Solid(Blue)
    /\ last_op.result.objects[1].fill = Solid(Blue)

(***************************************************************************)
(* The camera before its first keyframe.                                   *)
(***************************************************************************)
\* resolve_camera was called at a frame preceding every camera keyframe.
BeforeFirstCameraKeyframe ==
    /\ last_op.op = "resolve_camera"
    /\ DOMAIN camera_keyframes # {}
    /\ \A k \in DOMAIN camera_keyframes : last_op.calls[1] < k

\* C26: when the camera keyframe map is not empty and the frame precedes
\* every camera keyframe, resolve_camera returns the pose of the earliest
\* camera keyframe, whatever the camera tween, and completes.
C26_CameraBeforeFirstKeyframe ==
    BeforeFirstCameraKeyframe
    => /\ \E first \in DOMAIN camera_keyframes :
            /\ \A k \in DOMAIN camera_keyframes : first <= k
            /\ last_op.result.value = <<camera_keyframes[first]>>
       /\ ~last_op.result.panic
       /\ ~last_op.result.overflow

\* Frame 0 was resolved under an eased camera tween with camera keyframes
\* at 1 and 3; the pose is the one stored at 1 and differs from the default.
C26_Witness ==
    /\ BeforeFirstCameraKeyframe
    /\ camera_tween.kind = "EaseInOut"
    /\ DOMAIN camera_keyframes = {1, 3}
    /\ last_op.calls[1] = 0
    /\ last_op.result.value
         = <<CameraKeyframe(<<I(0), I(0)>>, I(1), I(350))>>
    /\ last_op.result.value # <<ResolvedCameraDefault>>

(***************************************************************************)
(* Keyframe editing on the timeline (timeline.rs).                         *)
(***************************************************************************)
MaxTimelineEdits == 2
MaxSelected == 2

\* Mutant: F6 inserts the interpolated state of the frame.
insert_keyframe_snapshot(kfs, frame) ==
    IF frame \in DOMAIN kfs THEN kfs
    ELSE ensure_keyframe_at(Layer(kfs, EmptyMap), frame).keyframes

\* if !contains_key(current_frame) { insert(current_frame, predecessor
\* keyframe cloned, or Keyframe::default()) }
insert_keyframe(kfs, frame) ==
    IF frame \in DOMAIN kfs THEN kfs
    ELSE MapInsert(kfs, frame,
                   IF PrevKey(kfs, frame) # <<>>
                   THEN kfs[PrevKey(kfs, frame)[1]]
                   ELSE KeyframeDefault)

insert_blank_keyframe(kfs, frame) == MapInsert(kfs, frame, KeyframeDefault)

\* Mutant: the guard on the number of keyframes is dropped.
can_delete_keyframe_any_count(kfs, frame) == frame \in DOMAIN kfs

\* contains_key(&frame) && keyframes.len() > 1
can_delete_keyframe(kfs, frame) ==
    frame \in DOMAIN kfs /\ Cardinality(DOMAIN kfs) > 1

\* for (layer_index, frame) in selections { if keyframes.len() > 1 {
\* keyframes.remove(&frame) } }
RECURSIVE remove_selected(_, _)
remove_selected(kfs, selections) ==
    IF selections = <<>> THEN kfs
    ELSE remove_selected(IF Cardinality(DOMAIN kfs) > 1
                         THEN MapRemove(kfs, Head(selections))
                         ELSE kfs,
                         Tail(selections))

\* if source != target { if let Some(k) = keyframes.remove(&source) {
\* keyframes.insert(target, k) } }
move_keyframe(kfs, source, target) ==
    IF source # target /\ source \in DOMAIN kfs
    THEN MapInsert(MapRemove(kfs, source), target, kfs[source])
    ELSE kfs

\* Selections of timeline cells, in the order they were selected.
Selections ==
    {sel \in UNION {[1..n -> Frames] : n \in 1..MaxSelected} :
        \A i \in 1..Len(sel), j \in 1..Len(sel) : i # j => sel[i] # sel[j]}

TimelineKeyframes(K) ==
    [f \in K |-> [InitialKeyframes(K, 0)[f] EXCEPT !.label = "scene",
                                                    !.comment = "note"]]

InitTimeline ==
    /\ \E K \in SUBSET Frames :
          /\ Cardinality(K) <= MaxKeys
          /\ keyframes = TimelineKeyframes(K)
    /\ property_tracks = EmptyMap
    /\ camera_keyframes = EmptyMap
    /\ camera_tween = TweenNone
    /\ loop_start = <<>>
    /\ loop_end = <<>>
    /\ current_frame = 0
    /\ playback = PlaybackDefault
    /\ history = <<>>
    /\ edits = 0
    /\ last_op = Op("load", <<>>, <<>>)

\* A click on the frame header: app.current_frame = frame.
SelectFrame(frame) ==
    /\ current_frame' = frame
    /\ last_op' = Op("select_frame", <<frame>>, <<>>)
    /\ UNCHANGED <<projectVars, playback, history, edits>>

\* timeline.rs insert_keyframe (F6)
InsertKeyframe ==
    /\ edits < MaxTimelineEdits
    /\ history' = history_push(history, CurrentProject)
    /\ keyframes' = insert_keyframe(keyframes, current_frame)
    /\ last_op' = Op("insert_keyframe", <<"history.push">>, current_frame)
    /\ edits' = edits + 1
    /\ UNCHANGED <<property_tracks, camera_keyframes, camera_tween,
                   loop_start, loop_end, current_frame, playback>>

\* timeline.rs insert_blank_keyframe (F7)
InsertBlankKeyframe ==
    /\ edits < MaxTimelineEdits
    /\ history' = history_push(history, CurrentProject)
    /\ keyframes' = insert_blank_keyframe(keyframes, current_frame)
    /\ last_op' = Op("insert_blank_keyframe", <<"history.push">>,
                     current_frame)
    /\ edits' = edits + 1
    /\ UNCHANGED <<property_tracks, camera_keyframes, camera_tween,
                   loop_start, loop_end, current_frame, playback>>

\* timeline.rs delete_keyframe (Shift+F6): returns before the history push
\* when the frame has no keyframe or the layer has a single keyframe.
DeleteKeyframe ==
    /\ edits < MaxTimelineEdits
    /\ IF can_delete_keyframe(keyframes, current_frame)
       THEN /\ history' = history_push(history, CurrentProject)
            /\ keyframes' = MapRemove(keyframes, current_frame)
            /\ last_op' = Op("delete_keyframe", <<"history.push">>,
                             current_frame)
       ELSE /\ UNCHANGED <<history, keyframes>>
            /\ last_op' = Op("delete_keyframe", <<>>, current_frame)
    /\ edits' = edits + 1
    /\ UNCHANGED <<property_tracks, camera_keyframes, camera_tween,
                   loop_start, loop_end, current_frame, playback>>

\* timeline.rs delete_selected_frames (Delete with a non-empty selection)
DeleteSelectedFrames(selections) ==
    /\ edits < MaxTimelineEdits
    /\ history' = history_push(history, CurrentProject)
    /\ keyframes' = remove_selected(keyframes, selections)
    /\ last_op' = Op("delete_selected_frames", <<"history.push">>,
                     selections)
    /\ edits' = edits + 1
    /\ UNCHANGED <<property_tracks, camera_keyframes, camera_tween,
                   loop_start, loop_end, current_frame, playback>>

\* The "Delete Keyframe" button of the context menu of a timeline cell; the
\* button exists only for a keyframe of a layer with more than one.
ContextDeleteKeyframe(frame) ==
    /\ edits < MaxTimelineEdits
    /\ can_delete_keyframe(keyframes, frame)
    /\ history' = history_push(history, CurrentProject)
    /\ keyframes' = MapRemove(keyframes, frame)
    /\ last_op' = Op("context_delete_keyframe", <<"history.push">>, frame)
    /\ edits' = edits + 1
    /\ UNCHANGED <<property_tracks, camera_keyframes, camera_tween,
                   loop_start, loop_end, current_frame, playback>>

\* handle_grid_interaction: a drag that starts on the keyframe at `source`
\* (history push, current_frame = source) and is released over `target`.
DragKeyframe(source, target) ==
    /\ edits < MaxTimelineEdits
    /\ source \in DOMAIN keyframes
    /\ history' = history_push(history, CurrentProject)
    /\ keyframes' = move_keyframe(keyframes, source, target)
    /\ current_frame' = target
    /\ last_op' = Op("drag_keyframe", <<"history.push">>, <<source, target>>)
    /\ edits' = edits + 1
    /\ UNCHANGED <<property_tracks, camera_keyframes, camera_tween,
                   loop_start, loop_end, playback>>

NextTimeline ==
    \/ \E frame \in Frames : SelectFrame(frame)
    \/ InsertKeyframe
    \/ InsertBlankKeyframe
    \/ DeleteKeyframe
    \/ \E selections \in Selections : DeleteSelectedFrames(selections)
    \/ \E frame \in Frames : ContextDeleteKeyframe(frame)
    \/ \E source \in Frames, target \in Frames : DragKeyframe(source, target)

SpecTimeline == InitTimeline /\ [][NextTimeline]_vars

InsertStep == last_op'.op = "insert_keyframe"

\* C27: insert_keyframe leaves the keyframe map unchanged when the current
\* frame has a keyframe; otherwise it adds exactly the key of the current
\* frame, holding a copy of the predecessor keyframe (objects, tween,
\* shape_tween, label, comment) or an empty default keyframe when there is
\* no predecessor.  insert_blank_keyframe always leaves an empty keyframe
\* with tween None at the current frame.
C27_InsertKeyframeCopiesPredecessor ==
    [][/\ InsertStep /\ current_frame \in DOMAIN keyframes
          => keyframes' = keyframes
       /\ InsertStep /\ current_frame \notin DOMAIN keyframes
          => /\ DOMAIN keyframes' = DOMAIN keyframes \cup {current_frame}
             /\ \A k \in DOMAIN keyframes : keyframes'[k] = keyframes[k]
             /\ \A p \in DOMAIN keyframes :
                  IsPredecessor(keyframes, p, current_frame)
                  => keyframes'[current_frame] = keyframes[p]
             /\ (\A k \in DOMAIN keyframes : k > current_frame)
                  => keyframes'[current_frame]
                       = Keyframe(<<>>, TweenNone, "", "", FALSE)
       /\ last_op'.op = "insert_blank_keyframe"
          => /\ DOMAIN keyframes' = DOMAIN keyframes \cup {current_frame}
             /\ keyframes'[current_frame].objects = <<>>
             /\ keyframes'[current_frame].tween.kind = "None"
             /\ \A k \in DOMAIN keyframes \ {current_frame} :
                  keyframes'[k] = keyframes[k]]_vars

\* F6 inside a tweened span copied the predecessor keyframe, tween, label
\* and comment included, where the frame resolved to something else.
C27_Witness ==
    /\ last_op.op = "insert_keyframe"
    /\ Len(history) = 1
    /\ current_frame \notin DOMAIN history[1].keyframes
    /\ \E p \in DOMAIN keyframes :
         /\ p < current_frame
         /\ IsPredecessor(history[1].keyframes, p, current_frame)
         /\ keyframes[current_frame] = keyframes[p]
         /\ keyframes[p].tween.kind = "Linear"
         /\ keyframes[p].label = "scene"
         /\ resolve_frame(Layer(history[1].keyframes, property_tracks),
                          current_frame)
              # <<keyframes[p].objects>>

\* C28: a layer with at least one keyframe still has at least one after
\* insert_keyframe, insert_blank_keyframe, delete_keyframe,
\* delete_selected_frames, the context menu's "Delete Keyframe" and a
\* keyframe drag; delete_keyframe changes nothing when the current frame
\* has no keyframe or the layer has a single keyframe.
C28_LastKeyframeKept ==
    [][/\ DOMAIN keyframes # {} => DOMAIN keyframes' # {}
       /\ /\ last_op'.op = "delete_keyframe"
          /\ \/ current_frame \notin DOMAIN keyframes
             \/ Cardinality(DOMAIN keyframes) <= 1
          => /\ keyframes' = keyframes
             /\ history' = history
             /\ current_frame' = current_frame
             /\ property_tracks' = property_tracks]_vars

\* Both keyframes of a layer were selected and deleted: the first one went
\* and the second one stayed.
C28_Witness ==
    /\ last_op.op = "delete_selected_frames"
    /\ Len(last_op.result) = 2
    /\ Cardinality(DOMAIN history[Len(history)].keyframes) = 2
    /\ \A i \in 1..2 : last_op.result[i] \in DOMAIN history[Len(history)].keyframes
    /\ DOMAIN keyframes = {last_op.result[2]}

(***************************************************************************)
(* The loop region and playback inside it (timeline.rs, playback.rs).      *)
(***************************************************************************)
\* Mutant: the loop end is left alone when the start moves past it.
SetLoopStartHere_keeps_end(frame) ==
    /\ loop_start' = <<frame>>
    /\ loop_end' = IF loop_end = <<>> THEN <<TotalFrames - 1>> ELSE loop_end
    /\ last_op' = Op("set_loop_start", <<frame>>, loop_end)
    /\ UNCHANGED <<keyframes, property_tracks, camera_keyframes, camera_tween,
                   current_frame, playback, history, edits>>

\* Context menu of the timeline cell at `frame`: "Set Loop Start Here".
SetLoopStartHere(frame) ==
    /\ loop_start' = <<frame>>
    /\ loop_end' = IF loop_end = <<>> \/ (loop_end # <<>> /\ loop_end[1] < frame)
                   THEN <<TotalFrames - 1>>
                   ELSE loop_end
    /\ last_op' = Op("set_loop_start", <<frame>>, loop_end)
    /\ UNCHANGED <<keyframes, property_tracks, camera_keyframes, camera_tween,
                   current_frame, playback, history, edits>>

\* "Set Loop End Here"
SetLoopEndHere(frame) ==
    /\ loop_end' = <<frame>>
    /\ loop_start' = IF loop_start = <<>>
                        \/ (loop_start # <<>> /\ loop_start[1] > frame)
                     THEN <<0>>
                     ELSE loop_start
    /\ last_op' = Op("set_loop_end", <<frame>>, loop_start)
    /\ UNCHANGED <<keyframes, property_tracks, camera_keyframes, camera_tween,
                   current_frame, playback, history, edits>>

\* "Clear Loop Region", shown only when both ends are set.
ClearLoopRegion ==
    /\ loop_start # <<>>
    /\ loop_end # <<>>
    /\ loop_start' = <<>>
    /\ loop_end' = <<>>
    /\ last_op' = Op("clear_loop_region", <<>>, <<>>)
    /\ UNCHANGED <<keyframes, property_tracks, camera_keyframes, camera_tween,
                   current_frame, playback, history, edits>>

InitLoop ==
    /\ keyframes = InitialKeyframes({0}, 0)
    /\ property_tracks = EmptyMap
    /\ camera_keyframes = EmptyMap
    /\ camera_tween = TweenNone
    /\ loop_start = <<>>
    /\ loop_end = <<>>
    /\ current_frame = 0
    /\ playback = PlaybackDefault
    /\ history = <<>>
    /\ edits = 0
    /\ last_op = Op("load", <<>>, <<>>)

NextLoop ==
    \/ \E frame \in Frames : SelectFrame(frame)
    \/ \E frame \in Frames : SetLoopStartHere(frame)
    \/ \E frame \in Frames : SetLoopEndHere(frame)
    \/ ClearLoopRegion
    \/ TogglePlayback
    \/ \E delta \in 0..MaxDelta : AdvancePlayback(delta)

SpecLoop == InitLoop /\ [][NextLoop]_vars

HasLoop == loop_start # <<>> /\ loop_end # <<>>

\* One frame step: the frame after f.
FrameAfter(f) ==
    IF HasLoop
    THEN IF f + 1 > loop_end[1] THEN loop_start[1] ELSE f + 1
    ELSE IF f + 1 >= TotalFrames THEN 0 ELSE f + 1

RECURSIVE FramesAfter(_, _)
FramesAfter(f, n) == IF n = 0 THEN f ELSE FramesAfter(FrameAfter(f), n - 1)

Advancing == last_op'.op = "advance_playback"

\* The call measures elapsed time: playback runs and a previous call has
\* left its instant.
Measuring == playback.playing /\ playback.last_instant

\* C29: while playing, each frame duration that has elapsed advances
\* current_frame by one step; without a loop region a step reaching
\* total_frames wraps to 0 and current_frame stays below total_frames; with
\* a loop region a step past loop_end wraps to loop_start and a
\* current_frame inside the region stays inside; while not playing
\* advance_playback leaves current_frame alone; stopping playback resets
\* the accumulator to 0.
C29_PlaybackFrameStepping ==
    [][/\ Advancing /\ Measuring
          => /\ current_frame'
                  = FramesAfter(current_frame,
                                (playback.accumulator + last_op'.result)
                                    \div FrameDuration)
             /\ playback'.accumulator
                  = (playback.accumulator + last_op'.result) % FrameDuration
       /\ Advancing /\ ~HasLoop /\ current_frame < TotalFrames
          => current_frame' < TotalFrames
       /\ /\ Advancing
          /\ HasLoop
          /\ loop_start[1] <= current_frame
          /\ current_frame <= loop_end[1]
          => /\ loop_start[1] <= current_frame'
             /\ current_frame' <= loop_end[1]
       /\ Advancing /\ ~playback.playing => current_frame' = current_frame
       /\ last_op'.op = "toggle_playback" /\ playback.playing
          => ~playback'.playing /\ playback'.accumulator = 0]_vars

\* Two frame durations elapsed at the last frame of a loop region: playback
\* wrapped to the loop start and stepped once more.
C29_Witness ==
    /\ last_op.op = "advance_playback"
    /\ last_op.result = MaxDelta
    /\ playback.playing
    /\ playback.accumulator = 0
    /\ loop_start = <<1>>
    /\ loop_end = <<3>>
    /\ current_frame = 2

\* C30: after any sequence of "Set Loop Start Here", "Set Loop End Here"
\* and "Clear Loop Region" at frames of the timeline, loop_start and
\* loop_end are both unset or both set with
\* loop_start <= loop_end <= total_frames - 1.
C30_LoopRegionInvariant ==
    \/ loop_start = <<>> /\ loop_end = <<>>
    \/ /\ HasLoop
       /\ loop_start[1] <= loop_end[1]
       /\ loop_end[1] <= TotalFrames - 1

\* The loop start was set past the previous loop end, which moved the end
\* to the last frame.
C30_Witness ==
    /\ last_op.op = "set_loop_start"
    /\ last_op.result # <<>>
    /\ last_op.result[1] < last_op.calls[1]
    /\ loop_start = <<last_op.calls[1]>>
    /\ loop_end = <<TotalFrames - 1>>
    /\ last_op.calls[1] < TotalFrames - 1

====
